---------------------------- MODULE Spec2Model ----------------------------
(***************************************************************************)
(* A model of the news aggregation agent: the news search tools            *)
(* (tools/news_aggregation_tools.py), the speech tools                     *)
(* (tools/speech_tools.py), the agent graph (agent/agentic_workflow.py)    *)
(* and the HTTP handlers (main.py).  Each component has its own            *)
(* specification (SpecNews, SpecSpeech, SpecGraph, SpecApi); the variables *)
(* of the other components stay at their initial values.                   *)
(***************************************************************************)
EXTENDS Integers, Sequences, FiniteSets, TLC

\* ------------------------------------------------------------------- state
\* ---- the news tools (tools/news_aggregation_tools.py)
VARIABLES
    tavily_api_key,     \* TRUE iff TAVILY_API_KEY is set (NewsAggregator.__init__)
    newsapi_key,        \* TRUE iff NEWS_API_KEY is set
    news_pc,            \* position inside the running tool
    news_tool,          \* the tool being run, "none" when idle
    news_query,         \* its query argument
    categories,         \* the categories passed to aggregate_news
    results,            \* the local result lists of aggregate_news, by source
    agg_sources,        \* aggregated_results["sources"]
    total_articles,     \* aggregated_results["total_articles"]
    calls,              \* the search methods called so far, in order
    invoked,            \* the sources whose external client was invoked, in order
    last_resp,          \* what the client did in the last search call
    news_output         \* the string the tool returned, as a record

newsVars == <<tavily_api_key, newsapi_key, news_pc, news_tool, news_query,
              categories, results, agg_sources, total_articles, calls,
              invoked, last_resp, news_output>>

\* ---- the speech tools (tools/speech_tools.py)
VARIABLES
    default_language,     \* speech_processor.default_language (from the config)
    supported_languages,  \* speech_processor.supported_languages (from the config)
    sp_pc,                \* "idle" before a transcription tool runs, "done" after
    sp_call,              \* the tool called and its arguments
    sp_log,               \* the external operations performed, in order
    sp_result,            \* the dictionary the SpeechToTextProcessor returned
    sp_return             \* the string the tool returned, as a record

speechVars == <<default_language, supported_languages, sp_pc, sp_call, sp_log,
                sp_result, sp_return>>

\* ---- the agent graph (agent/agentic_workflow.py)
VARIABLES
    enable_memory,      \* GraphBuilder.enable_memory
    graph,              \* GraphBuilder.graph: "none" until build_graph compiles it
    memory,             \* the MemorySaver: the messages checkpointed per thread id
    g_pc,               \* the node the running graph executes next, "idle" between runs
    run_thread,         \* the thread id of the running run_with_memory call
    state_msgs,         \* the messages of the running graph's state
    steps,              \* the nodes the running graph has executed, in order
    llm_input,          \* the messages given to the LLM in the latest agent step
    run_result,         \* the dictionary the latest run_with_memory call returned
    runs,               \* the number of run_with_memory calls so far
    ok_msgs,            \* per thread id, result["messages"] of its latest successful call
    ok_lens,            \* per thread id, the conversation_length of its successful calls
    history_ret,        \* what the latest get_conversation_history call returned
    clear_ret           \* what the latest clear_conversation_history call returned

graphVars == <<enable_memory, graph, memory, g_pc, run_thread, state_msgs, steps,
               llm_input, run_result, runs, ok_msgs, ok_lens, history_ret,
               clear_ret>>

\* ---- the HTTP API (main.py)
VARIABLES
    api_default_language,   \* config.get('default_language', 'en-US')
    api_pc,                 \* "idle", or "query" while POST /query runs the agent
    api_req,                \* the request being handled, or the latest one handled
    api_resp                \* the response to the latest request handled

apiVars == <<api_default_language, api_pc, api_req, api_resp>>

\* ---- the interactive command line (cli_app.py)
VARIABLES
    cli_pc,                 \* where NewsAggregatorCLI.run is: "start", "prompt",
                            \* "query" while the agent runs, "failed", "ended"
    session_active,         \* NewsAggregatorCLI.session_active
    cli_agent,              \* NewsAggregatorCLI.agent: "none" or "ready"
    cli_thread_id,          \* NewsAggregatorCLI.thread_id
    cli_input,              \* the latest input read, as its words
    cli_reads,              \* the number of inputs read
    cli_printed,            \* the latest thing printed by the loop
    last_agent_response,    \* run's last_agent_response
    cli_interrupted,        \* a KeyboardInterrupt has been caught
    cli_thread_cmd,         \* the id typed in the latest 'thread <id>' command
    os_environ,             \* os.environ: the debug and tracing settings
    tts_text,               \* the text of the latest speak_text invocation
    cli_query               \* the query of the latest process_query call

cliVars == <<cli_pc, session_active, cli_agent, cli_thread_id, cli_input, cli_reads,
             cli_printed, last_agent_response, cli_interrupted, cli_thread_cmd,
             os_environ, tts_text, cli_query>>

vars == <<newsVars, speechVars, graphVars, apiVars, cliVars>>

\* ------------------------------------------------------------------ bounds
\* longest article list a backend returns
MaxLen == 6
\* most run_with_memory calls (or POST /query requests) in a behaviour
MaxRuns == 2
\* most nodes one run of the graph executes
MaxSupersteps == 3
\* most tool calls one LLM response requests
MaxToolCalls == 2
\* most HTTP requests in a behaviour
MaxRequests == 2
\* most inputs the interactive loop reads in a behaviour
MaxInputs == 3

\* ------------------------------------------------- constants of the program
\* tech_results threshold below which LinkedIn and Medium are searched
TechThreshold == 5
\* enumerate(x[:5], 1) in the single-category tools
TopMain == 5
\* enumerate(x[:3], 1) in the LinkedIn/Medium sections and the comprehensive tool
TopShort == 3

Min(a, b) == IF a < b THEN a ELSE b

\* ================================================================== NEWS ==
SourceNames == {"newsapi", "tavily", "tech_sources", "linkedin", "medium",
                "financial_sources"}
NewsTools == {"search_general_news", "search_technology_news",
              "search_business_news", "search_comprehensive_news"}
\* The query is only echoed in the returned string.
Queries == {"ai"}

\* A backend returns articles in its own order; an article is named by its
\* place in that order.
Articles(n) == [i \in 1..n |-> i]

\* What the external client does when invoked: it raises, it returns something
\* that is not the expected dictionary, or it returns a list of articles.
Responses ==
    {[kind |-> "raise", articles |-> <<>>], [kind |-> "not_dict", articles |-> <<>>]}
    \cup {[kind |-> "ok", articles |-> Articles(n)] : n \in 0..MaxLen}

\* The article, if any, whose fields make the rendering code raise (a None
\* where a string or a dictionary is expected): the first one, the first one
\* past the short cut, or the first one past the long cut.
NoBad == [src |-> "none", pos |-> 0]
BadPositions == {1, TopShort + 1, TopMain + 1}
BadChoices == {NoBad} \cup [src : SourceNames, pos : BadPositions]

\* The body shared by the six search methods: [] without the key, [] when the
\* client raises or answers with the wrong shape, the articles otherwise.
GuardedSearchNoKeyCheck(key, resp) ==
    IF resp.kind = "ok" THEN resp.articles ELSE <<>>

GuardedSearch(key, resp) ==
    IF ~key THEN <<>>
    ELSE IF resp.kind = "ok" THEN resp.articles
    ELSE <<>>

search_news_tavily(resp) == GuardedSearch(tavily_api_key, resp)
search_news_api(resp) == GuardedSearch(newsapi_key, resp)
search_tech_news(resp) == GuardedSearch(newsapi_key, resp)
search_business_news(resp) == GuardedSearch(newsapi_key, resp)
\* search_linkedin_news testing the key of the other client.
search_linkedin_news_other_key(resp) == GuardedSearch(newsapi_key, resp)

search_linkedin_news(resp) == GuardedSearch(tavily_api_key, resp)
search_medium_articles(resp) == GuardedSearch(tavily_api_key, resp)

\* The key a source's search method tests before it invokes its client.
KeyOf(src) == IF src \in {"tavily", "linkedin", "medium"} THEN tavily_api_key
              ELSE newsapi_key

SearchOf(src, resp) ==
    CASE src = "newsapi" -> search_news_api(resp)
      [] src = "tavily" -> search_news_tavily(resp)
      [] src = "tech_sources" -> search_tech_news(resp)
      [] src = "linkedin" -> search_linkedin_news(resp)
      [] src = "medium" -> search_medium_articles(resp)
      [] src = "financial_sources" -> search_business_news(resp)

\* The bookkeeping of one call of a search method.
Called(src, resp) ==
    /\ calls' = Append(calls, src)
    /\ invoked' = IF KeyOf(src) THEN Append(invoked, src) ELSE invoked
    /\ last_resp' = IF KeyOf(src) THEN resp.kind ELSE "not_invoked"

NotCalled == /\ UNCHANGED <<calls, invoked>>
             /\ last_resp' = "not_called"

\* The categories each tool passes to aggregate_news.
CategoriesOf(tool) ==
    CASE tool = "search_general_news" -> {"general"}
      [] tool = "search_technology_news" -> {"tech"}
      [] tool = "search_business_news" -> {"business"}
      [] tool = "search_comprehensive_news" -> {"general", "tech", "business"}

\* Where aggregate_news goes after a category, in its fixed order.
FirstPc(cats) ==
    IF "general" \in cats THEN "newsapi"
    ELSE IF "tech" \in cats THEN "tech"
    ELSE IF "business" \in cats THEN "business"
    ELSE "render"

\* aggregate_news returning after the general category.
AfterGeneralReturns(cats) == "render"

AfterGeneral(cats) ==
    IF "tech" \in cats THEN "tech"
    ELSE IF "business" \in cats THEN "business"
    ELSE "render"

AfterTech(cats) == IF "business" \in cats THEN "business" ELSE "render"

EmptyResults == [s \in SourceNames |-> <<>>]
NoOutput == [kind |-> "none", tool |-> "none", query |-> "none", total |-> 0,
             sections |-> <<>>]

\* The three += of aggregate_news.
GeneralCount(newsapi_results, tavily_results) ==
    Len(newsapi_results) + Len(tavily_results)

TechCountNoMedium(tech_results, linkedin_results, medium_results) ==
    Len(tech_results) + Len(linkedin_results)

TechCount(tech_results, linkedin_results, medium_results) ==
    Len(tech_results) + Len(linkedin_results) + Len(medium_results)

BusinessCount(business_results) == Len(business_results)

InitNews ==
    /\ tavily_api_key \in BOOLEAN
    /\ newsapi_key \in BOOLEAN
    /\ news_pc = "idle"
    /\ news_tool = "none"
    /\ news_query = "none"
    /\ categories = {}
    /\ results = EmptyResults
    /\ agg_sources = <<>>
    /\ total_articles = 0
    /\ calls = <<>>
    /\ invoked = <<>>
    /\ last_resp = "not_called"
    /\ news_output = NoOutput


\* The resting values of the news variables, for the other specifications.
IdleNews ==
    /\ tavily_api_key = FALSE
    /\ newsapi_key = FALSE
    /\ news_pc = "idle"
    /\ news_tool = "none"
    /\ news_query = "none"
    /\ categories = {}
    /\ results = EmptyResults
    /\ agg_sources = <<>>
    /\ total_articles = 0
    /\ calls = <<>>
    /\ invoked = <<>>
    /\ last_resp = "not_called"
    /\ news_output = NoOutput

\* The variables of the other components, which no news action changes.
NewsFrame == UNCHANGED <<speechVars, graphVars, apiVars, cliVars>>

\* A tool is called (by the agent's tools step): the tool calls
\* aggregate_news, which starts with empty sources and a zero total.  A call
\* leaves nothing behind that a later call reads, so a behaviour is one call.
StartNewsTool ==
    /\ news_pc = "idle"
    /\ \E tool \in NewsTools, q \in Queries :
          /\ news_tool' = tool
          /\ news_query' = q
          /\ categories' = CategoriesOf(tool)
          /\ news_pc' = FirstPc(CategoriesOf(tool))
    /\ results' = EmptyResults
    /\ agg_sources' = <<>>
    /\ total_articles' = 0
    /\ calls' = <<>>
    /\ invoked' = <<>>
    /\ last_resp' = "not_called"
    /\ news_output' = NoOutput
    /\ UNCHANGED <<tavily_api_key, newsapi_key>>
    /\ NewsFrame

\* newsapi_results = self.search_news_api(query, 10)
GeneralNewsApi ==
    /\ news_pc = "newsapi"
    /\ \E resp \in Responses :
          /\ results' = [results EXCEPT !["newsapi"] = search_news_api(resp)]
          /\ Called("newsapi", resp)
    /\ news_pc' = "tavily"
    /\ UNCHANGED <<tavily_api_key, newsapi_key, news_tool, news_query, categories,
                   agg_sources, total_articles, news_output>>
    /\ NewsFrame

\* The Tavily search made whatever NewsAPI returned.
GeneralFallbackAlways(newsapi_results) == TRUE

\* The condition under which Tavily is searched: not newsapi_results.
GeneralFallback(newsapi_results) == newsapi_results = <<>>

\* tavily_results = self.search_news_tavily(query, 5) if not newsapi_results
\* else []; then the general sources are stored and counted.
GeneralTavily ==
    /\ news_pc = "tavily"
    /\ \E resp \in Responses :
          LET tavily_results ==
                  IF GeneralFallback(results["newsapi"])
                  THEN search_news_tavily(resp)
                  ELSE <<>>
          IN  /\ IF GeneralFallback(results["newsapi"]) THEN Called("tavily", resp)
                 ELSE NotCalled
              /\ results' = [results EXCEPT !["tavily"] = tavily_results]
              /\ agg_sources' = agg_sources @@
                    ("general" :> [newsapi |-> results["newsapi"],
                                   tavily |-> tavily_results])
              /\ total_articles' = total_articles
                    + GeneralCount(results["newsapi"], tavily_results)
    /\ news_pc' = AfterGeneral(categories)
    /\ UNCHANGED <<tavily_api_key, newsapi_key, news_tool, news_query, categories,
                   news_output>>
    /\ NewsFrame

\* tech_results = self.search_tech_news(query)
TechSources ==
    /\ news_pc = "tech"
    /\ \E resp \in Responses :
          /\ results' = [results EXCEPT !["tech_sources"] = search_tech_news(resp)]
          /\ Called("tech_sources", resp)
    /\ news_pc' = "linkedin"
    /\ UNCHANGED <<tavily_api_key, newsapi_key, news_tool, news_query, categories,
                   agg_sources, total_articles, news_output>>
    /\ NewsFrame

\* LinkedIn and Medium searched also at exactly the threshold.
TechInsufficientAtThreshold(tech_results) == Len(tech_results) <= TechThreshold

\* The condition under which LinkedIn and Medium are searched.
TechInsufficient(tech_results) == Len(tech_results) < TechThreshold

\* linkedin_results = self.search_linkedin_news(query) if len(tech_results) < 5
\* else []
TechLinkedin ==
    /\ news_pc = "linkedin"
    /\ \E resp \in Responses :
          IF TechInsufficient(results["tech_sources"])
          THEN /\ results' = [results EXCEPT !["linkedin"] = search_linkedin_news(resp)]
               /\ Called("linkedin", resp)
          ELSE /\ results' = [results EXCEPT !["linkedin"] = <<>>]
               /\ NotCalled
    /\ news_pc' = "medium"
    /\ UNCHANGED <<tavily_api_key, newsapi_key, news_tool, news_query, categories,
                   agg_sources, total_articles, news_output>>
    /\ NewsFrame

\* medium_results = self.search_medium_articles(query) if len(tech_results) < 5
\* else []; then the technology sources are stored and counted.
TechMedium ==
    /\ news_pc = "medium"
    /\ \E resp \in Responses :
          LET medium_results ==
                  IF TechInsufficient(results["tech_sources"])
                  THEN search_medium_articles(resp) ELSE <<>>
          IN  /\ IF TechInsufficient(results["tech_sources"])
                 THEN Called("medium", resp) ELSE NotCalled
              /\ results' = [results EXCEPT !["medium"] = medium_results]
              /\ agg_sources' = agg_sources @@
                    ("technology" :> [tech_sources |-> results["tech_sources"],
                                      linkedin |-> results["linkedin"],
                                      medium |-> medium_results])
              /\ total_articles' = total_articles
                    + TechCount(results["tech_sources"], results["linkedin"],
                                medium_results)
    /\ news_pc' = AfterTech(categories)
    /\ UNCHANGED <<tavily_api_key, newsapi_key, news_tool, news_query, categories,
                   news_output>>
    /\ NewsFrame

\* business_results = self.search_business_news(query), stored and counted.
BusinessSources ==
    /\ news_pc = "business"
    /\ \E resp \in Responses :
          LET business_results == search_business_news(resp)
          IN  /\ Called("financial_sources", resp)
              /\ results' = [results EXCEPT !["financial_sources"] = business_results]
              /\ agg_sources' = agg_sources @@
                    ("business" :> [financial_sources |-> business_results])
              /\ total_articles' = total_articles + BusinessCount(business_results)
    /\ news_pc' = "render"
    /\ UNCHANGED <<tavily_api_key, newsapi_key, news_tool, news_query, categories,
                   news_output>>
    /\ NewsFrame


\* ------------------------------------------------------------- rendering --
\* results["sources"].get(cat) is truthy: the category is stored and its
\* dictionary has at least one key.
Truthy(srcs, cat) == cat \in DOMAIN srcs /\ DOMAIN srcs[cat] # {}

\* The same without the slice: every article of the list is numbered.
EnumerateAll(list, k) == [i \in 1..Len(list) |-> <<i, list[i]>>]

\* enumerate(list[:k], 1): the pairs <<number, article>>.
Enumerate(list, k) == [i \in 1..Min(Len(list), k) |-> <<i, list[i]>>]

\* One "if list:" block: a heading and the numbered items, nothing for [].
Section(heading, list, k) ==
    IF list = <<>> THEN <<>>
    ELSE <<[heading |-> heading, items |-> Enumerate(list, k)]>>

\* A category heading of the comprehensive tool, emitted with no item of its own.
Heading(heading) == <<[heading |-> heading, items |-> <<>>]>>

\* The loop over list[:k] raises when it reaches the malformed article.
Raises(src, list, k, bad) ==
    bad.src = src /\ bad.pos \in 1..Min(Len(list), k)

ErrorOutput(tool, q) ==
    [kind |-> "error", tool |-> tool, query |-> q, total |-> 0, sections |-> <<>>]
NoneFound(tool, q) ==
    [kind |-> "none_found", tool |-> tool, query |-> q, total |-> 0, sections |-> <<>>]
Report(tool, q, total, sections) ==
    [kind |-> "report", tool |-> tool, query |-> q, total |-> total,
     sections |-> sections]

format_general(q, srcs, bad) ==
    IF ~Truthy(srcs, "general") THEN NoneFound("search_general_news", q)
    ELSE LET tavily_news == srcs["general"].tavily
             newsapi_news == srcs["general"].newsapi
         IN  IF \/ Raises("tavily", tavily_news, TopMain, bad)
                \/ Raises("newsapi", newsapi_news, TopMain, bad)
             THEN ErrorOutput("search_general_news", q)
             ELSE Report("search_general_news", q, 0,
                         Section("Web Search Results", tavily_news, TopMain)
                         \o Section("News API Results", newsapi_news, TopMain))

format_technology(q, srcs, bad) ==
    IF ~Truthy(srcs, "technology") THEN NoneFound("search_technology_news", q)
    ELSE LET tech_articles == srcs["technology"].tech_sources
             linkedin_articles == srcs["technology"].linkedin
             medium_articles == srcs["technology"].medium
         IN  IF \/ Raises("tech_sources", tech_articles, TopMain, bad)
                \/ Raises("linkedin", linkedin_articles, TopShort, bad)
                \/ Raises("medium", medium_articles, TopShort, bad)
             THEN ErrorOutput("search_technology_news", q)
             ELSE Report("search_technology_news", q, 0,
                         Section("Tech Sources", tech_articles, TopMain)
                         \o Section("LinkedIn Insights", linkedin_articles, TopShort)
                         \o Section("Medium Articles", medium_articles, TopShort))

format_business(q, srcs, bad) ==
    IF ~Truthy(srcs, "business") THEN NoneFound("search_business_news", q)
    ELSE LET financial_articles == srcs["business"].financial_sources
         IN  IF Raises("financial_sources", financial_articles, TopMain, bad)
             THEN ErrorOutput("search_business_news", q)
             ELSE Report("search_business_news", q, 0,
                         Section("Financial Sources", financial_articles, TopMain))

format_comprehensive(q, srcs, total, bad) ==
    LET general ==
            IF Truthy(srcs, "general")
            THEN Heading("General News")
                 \o Section("Web Search Results", srcs["general"].tavily, TopShort)
                 \o Section("News API Results", srcs["general"].newsapi, TopShort)
            ELSE <<>>
        technology ==
            IF Truthy(srcs, "technology")
            THEN <<[heading |-> "Technology News",
                    items |-> Enumerate(srcs["technology"].tech_sources, TopShort)]>>
            ELSE <<>>
        business ==
            IF Truthy(srcs, "business")
            THEN <<[heading |-> "Business News",
                    items |-> Enumerate(srcs["business"].financial_sources, TopShort)]>>
            ELSE <<>>
        raises ==
            \/ /\ Truthy(srcs, "general")
               /\ \/ Raises("tavily", srcs["general"].tavily, TopShort, bad)
                  \/ Raises("newsapi", srcs["general"].newsapi, TopShort, bad)
            \/ /\ Truthy(srcs, "technology")
               /\ Raises("tech_sources", srcs["technology"].tech_sources, TopShort, bad)
            \/ /\ Truthy(srcs, "business")
               /\ Raises("financial_sources", srcs["business"].financial_sources,
                         TopShort, bad)
    IN  IF raises THEN ErrorOutput("search_comprehensive_news", q)
        ELSE Report("search_comprehensive_news", q, total,
                    general \o technology \o business)

\* What the running tool returns for the aggregated results.
ToolOutput(tool, q, srcs, total, bad) ==
    CASE tool = "search_general_news" -> format_general(q, srcs, bad)
      [] tool = "search_technology_news" -> format_technology(q, srcs, bad)
      [] tool = "search_business_news" -> format_business(q, srcs, bad)
      [] tool = "search_comprehensive_news" -> format_comprehensive(q, srcs, total, bad)

\* aggregate_news has returned: the tool formats the results and returns the
\* string, or the string of its except branch.
RenderNews ==
    /\ news_pc = "render"
    /\ \E bad \in BadChoices :
          news_output' = ToolOutput(news_tool, news_query, agg_sources,
                                    total_articles, bad)
    /\ news_pc' = "done"
    /\ UNCHANGED <<tavily_api_key, newsapi_key, news_tool, news_query, categories,
                   results, agg_sources, total_articles, calls, invoked, last_resp>>
    /\ NewsFrame

NextNews ==
    \/ StartNewsTool
    \/ GeneralNewsApi
    \/ GeneralTavily
    \/ TechSources
    \/ TechLinkedin
    \/ TechMedium
    \/ BusinessSources
    \/ RenderNews


\* ================================================================ SPEECH ==
Langs == {"en-US", "es-ES", "xx-XX"}
\* A language argument: a code, or "" for an argument that is not given.
LangArgs == Langs \cup {""}

\* Optional[float] / Optional[int] arguments.
NoneNum == [some |-> FALSE, v |-> 0]
Some(n) == [some |-> TRUE, v |-> n]
StartTimeouts == {NoneNum, Some(0), Some(15)}
Durations == {0, 5}

\* What the outside world does during one transcription:
\*   file    the audio file opens and is recorded, or cannot be read
\*   mic     the microphone delivers audio, cannot be opened, or no phrase
\*           starts before the timeout
\*   google  recognize_google returns text, raises UnknownValueError, or
\*           raises RequestError (request failed / connection timed out)
\*   sphinx  recognize_sphinx returns text, raises UnknownValueError, or
\*           raises RequestError (PocketSphinx missing)
\*   decode  base64.b64decode succeeds or raises
SpeechEnvs ==
    [file : {"audio", "unreadable"},
     mic : {"audio", "open_error", "wait_timeout"},
     google : {"text", "unknown_value", "request_error", "connection_timed_out"},
     sphinx : {"text", "unknown_value", "request_error"},
     decode : {"ok", "invalid"}]

\* str(e) of the exceptions, and the literal messages of the code.
CouldNotUnderstand == "Could not understand audio"
ListenTimedOut == "listening timed out while waiting for phrase to start"
GoogleRequestFailed == "recognition request failed"
GoogleConnectionTimedOut == "recognition connection failed: timed out"
SphinxMissing == "missing PocketSphinx module"
MicOpenFailed == "No Default Input Device Available"
AudioFileUnreadable == "Audio file could not be read as PCM WAV, AIFF/AIFF-C, or Native FLAC"

\* The messages m with "timeout" in m.lower(): none of the messages above.
ContainsTimeoutWord(msg) == msg \in {}

\* The messages m with "timed out" in m.lower().
ContainsTimedOut(msg) == msg \in {ListenTimedOut, GoogleConnectionTimedOut}

NoResult == [success |-> FALSE, error |-> "none", text |-> "", confidence |-> "none",
             engine |-> "none", language |-> "none"]
Failure(err) == [success |-> FALSE, error |-> err, text |-> "", confidence |-> "low",
                 engine |-> "none", language |-> "none"]
Success(text, confidence, engine, language) ==
    [success |-> TRUE, error |-> "", text |-> text, confidence |-> confidence,
     engine |-> engine, language |-> language]

Op(op, audio) == <<[op |-> op, audio |-> audio]>>

\* The text the recognizers hear in the audio.
Heard == "latest ai news"

GoogleMessage(outcome) ==
    IF outcome = "connection_timed_out" THEN GoogleConnectionTimedOut
    ELSE GoogleRequestFailed

\* The recognition block shared by the three processor methods: Google first;
\* on UnknownValueError Sphinx; every other exception reaches the method's
\* outer except, which returns str(e).  (transcribe_microphone also catches
\* WaitTimeoutError here, which no recognizer raises.)
Recognize(audio, language, env) ==
    LET g == Op("recognize_google", audio)
        s == Op("recognize_sphinx", audio)
    IN  CASE env.google = "text" ->
               [result |-> Success(Heard, "high", "google", language), log |-> g]
          [] env.google = "unknown_value" ->
               CASE env.sphinx = "text" ->
                      [result |-> Success(Heard, "medium", "sphinx", language),
                       log |-> g \o s]
                 [] env.sphinx = "unknown_value" ->
                      [result |-> Failure(CouldNotUnderstand), log |-> g \o s]
                 [] OTHER ->
                      [result |-> Failure(SphinxMissing), log |-> g \o s]
          [] OTHER ->
               [result |-> Failure(GoogleMessage(env.google)), log |-> g]

\* SpeechToTextProcessor.transcribe_audio_file
processor_transcribe_audio_file(language, env) ==
    IF env.file = "unreadable"
    THEN [result |-> Failure(AudioFileUnreadable), log |-> Op("open_audio_file", "none")]
    ELSE LET r == Recognize("file", language, env)
         IN  [result |-> r.result, log |-> Op("open_audio_file", "file") \o r.log]

\* SpeechToTextProcessor.transcribe_audio_bytes (the conversion to WAV never
\* raises: it returns the original bytes when it fails)
processor_transcribe_audio_bytes(language, env) ==
    Recognize("bytes", language, env)

\* effective_timeout of transcribe_microphone
ProcessorTimeout(start_timeout) ==
    IF ~start_timeout.some \/ start_timeout.v <= 0 THEN NoneNum ELSE start_timeout

\* SpeechToTextProcessor.transcribe_microphone
processor_transcribe_microphone(language, start_timeout, env) ==
    CASE env.mic = "open_error" ->
           [result |-> Failure(MicOpenFailed), log |-> Op("open_microphone", "none")]
      [] env.mic = "wait_timeout" /\ ProcessorTimeout(start_timeout).some ->
           [result |-> Failure(ListenTimedOut),
            log |-> Op("open_microphone", "none") \o Op("listen", "none")]
      [] OTHER ->
           LET r == Recognize("microphone", language, env)
           IN  [result |-> r.result,
                log |-> Op("open_microphone", "none") \o Op("listen", "microphone")
                        \o r.log]

\* ---- the tools
NoReturn == [kind |-> "none", detail |-> "none", engine |-> "none", text |-> "",
             hint |-> FALSE]
ReturnError(kind, detail) ==
    [kind |-> kind, detail |-> detail, engine |-> "none", text |-> "", hint |-> FALSE]
ReturnOf(result, hint) ==
    IF result.success
    THEN [kind |-> "Transcription successful", detail |-> "", engine |-> result.engine,
          text |-> result.text, hint |-> FALSE]
    ELSE [kind |-> "Transcription failed", detail |-> result.error, engine |-> "none",
          text |-> "", hint |-> hint]

\* if not language: language = speech_processor.default_language
LanguageOrDefault(language) == IF language = "" THEN default_language ELSE language

\* The mutant of LanguageSupported that validates nothing.
LanguageAlwaysSupported(language) == TRUE

\* if language not in speech_processor.supported_languages: return "Error: ..."
LanguageSupported(language) == language \in supported_languages

\* @tool transcribe_audio_file
transcribe_audio_file(exists, language_arg, env) ==
    LET language == LanguageOrDefault(language_arg)
    IN  IF ~exists
        THEN [ret |-> ReturnError("Error: Audio file not found", "path"),
              result |-> NoResult, log |-> <<>>]
        ELSE IF ~LanguageSupported(language)
        THEN [ret |-> ReturnError("Error: Unsupported language", language),
              result |-> NoResult, log |-> <<>>]
        ELSE LET r == processor_transcribe_audio_file(language, env)
             IN  [ret |-> ReturnOf(r.result, FALSE), result |-> r.result, log |-> r.log]

\* effective_start_timeout of the microphone tool
ToolTimeout(start_timeout) ==
    IF start_timeout.some /\ start_timeout.v <= 0 THEN NoneNum
    ELSE IF start_timeout.some THEN start_timeout
    ELSE Some(12)

\* The hint is added on "timed out" in str(result.get('error', '')).lower().
Guidance(result) == ContainsTimedOut(result.error)

\* @tool transcribe_audio_from_microphone
transcribe_audio_from_microphone(language_arg, start_timeout, env) ==
    LET language == LanguageOrDefault(language_arg)
    IN  IF ~LanguageSupported(language)
        THEN [ret |-> ReturnError("Error: Unsupported language", language),
              result |-> NoResult, log |-> <<>>]
        ELSE LET r == processor_transcribe_microphone(language,
                          ToolTimeout(start_timeout), env)
             IN  [ret |-> ReturnOf(r.result, Guidance(r.result)),
                  result |-> r.result, log |-> r.log]

\* @tool transcribe_base64_audio
transcribe_base64_audio(language_arg, env) ==
    LET language == LanguageOrDefault(language_arg)
    IN  IF ~LanguageSupported(language)
        THEN [ret |-> ReturnError("Error: Unsupported language", language),
              result |-> NoResult, log |-> <<>>]
        ELSE IF env.decode = "invalid"
        THEN [ret |-> ReturnError("Error processing base64 audio", "Incorrect padding"),
              result |-> NoResult, log |-> Op("b64decode", "none")]
        ELSE LET r == processor_transcribe_audio_bytes(language, env)
             IN  [ret |-> ReturnOf(r.result, FALSE), result |-> r.result,
                  log |-> Op("b64decode", "bytes") \o r.log]

\* A wait for the start of a phrase can time out only if a timeout is in force.
Feasible(start_timeout, env) ==
    env.mic = "wait_timeout" => ProcessorTimeout(ToolTimeout(start_timeout)).some

NoCall == [tool |-> "none", exists |-> FALSE, language |-> "", duration |-> 0,
           start_timeout |-> NoneNum, env |-> "none"]

InitSpeech ==
    /\ default_language \in Langs
    /\ supported_languages \in (SUBSET Langs) \ {{}}
    /\ sp_pc = "idle"
    /\ sp_call = NoCall
    /\ sp_log = <<>>
    /\ sp_result = NoResult
    /\ sp_return = NoReturn

\* The resting values of the speech variables, for the other specifications.
IdleSpeech ==
    /\ default_language = "en-US"
    /\ supported_languages = {"en-US"}
    /\ sp_pc = "idle"
    /\ sp_call = NoCall
    /\ sp_log = <<>>
    /\ sp_result = NoResult
    /\ sp_return = NoReturn

\* The variables of the other components, which no speech action changes.
SpeechFrame == UNCHANGED <<newsVars, graphVars, apiVars, cliVars>>

Returned(call, out) ==
    /\ sp_call' = call
    /\ sp_log' = out.log
    /\ sp_result' = out.result
    /\ sp_return' = out.ret
    /\ sp_pc' = "done"
    /\ UNCHANGED <<default_language, supported_languages>>
    /\ SpeechFrame

\* One call of the tool transcribe_audio_file.
TranscribeAudioFile ==
    /\ sp_pc = "idle"
    /\ \E exists \in BOOLEAN, language \in LangArgs, env \in SpeechEnvs :
          Returned([tool |-> "transcribe_audio_file", exists |-> exists,
                    language |-> language, duration |-> 0,
                    start_timeout |-> NoneNum, env |-> env],
                   transcribe_audio_file(exists, language, env))

\* One call of the tool transcribe_audio_from_microphone.
TranscribeAudioFromMicrophone ==
    /\ sp_pc = "idle"
    /\ \E language \in LangArgs, duration \in Durations,
          start_timeout \in StartTimeouts, env \in SpeechEnvs :
          /\ Feasible(start_timeout, env)
          /\ Returned([tool |-> "transcribe_audio_from_microphone", exists |-> FALSE,
                       language |-> language, duration |-> duration,
                       start_timeout |-> start_timeout, env |-> env],
                      transcribe_audio_from_microphone(language, start_timeout, env))

\* One call of the tool transcribe_base64_audio.
TranscribeBase64Audio ==
    /\ sp_pc = "idle"
    /\ \E language \in LangArgs, env \in SpeechEnvs :
          Returned([tool |-> "transcribe_base64_audio", exists |-> FALSE,
                    language |-> language, duration |-> 0,
                    start_timeout |-> NoneNum, env |-> env],
                   transcribe_base64_audio(language, env))

NextSpeech ==
    \/ TranscribeAudioFile
    \/ TranscribeAudioFromMicrophone
    \/ TranscribeBase64Audio

\* ================================================================= GRAPH ==
\* config.get('memory', {}).get('default_thread_id', 'default')
default_thread_id == "default"
\* A thread_id argument: an id, or "" for None or the empty string.
ThreadArgs == {"", "t1", "t2"}
ThreadIds == {default_thread_id, "t1", "t2"}
\* Every thread id in use, those of main.py and cli_app.py included.
AllThreadIds == ThreadIds \cup {"api_default", "cli_default"}

START == "__start__"
END == "__end__"

\* Messages.  A message is named by the call and the step that made it.
SYSTEM_PROMPT == [type |-> "system", run |-> 0, step |-> 0, tool_calls |-> 0]
HumanMessage(run) == [type |-> "human", run |-> run, step |-> 0, tool_calls |-> 0]
AIMessage(run, step, n) == [type |-> "ai", run |-> run, step |-> step, tool_calls |-> n]
ToolMessage(run, step, i) == [type |-> "tool", run |-> run, step |-> step,
                              tool_calls |-> i]

\* What the LLM does when invoked: it answers, it requests n tools, or the
\* call raises.
LLMOutcomes ==
    {[kind |-> "final", n |-> 0], [kind |-> "raise", n |-> 0]}
    \cup {[kind |-> "tools", n |-> n] : n \in 1..MaxToolCalls}

\* agent_function's input: the system prompt is prepended unless the first
\* message is a dict with role "system"; the state holds message objects,
\* never dicts.
IsSystemDict(msg) == FALSE
AgentInputNoPrompt(messages) == messages

AgentInput(messages) ==
    IF messages = <<>> \/ ~IsSystemDict(messages[1])
    THEN <<SYSTEM_PROMPT>> \o messages
    ELSE messages

\* langgraph's tools_condition on the last message.
tools_conditionInverted(messages) ==
    IF messages[Len(messages)].tool_calls > 0 THEN END ELSE "tools"

tools_condition(messages) ==
    IF messages[Len(messages)].tool_calls > 0 THEN "tools" ELSE END

\* The edges of build_graph with the edge out of the tools node leading to
\* no node that runs.
StaticEdgesToolsLost ==
    {<<START, "agent">>, <<"tools", "nowhere">>, <<"agent", END>>}

\* The edges added by build_graph.
StaticEdges == {<<START, "agent">>, <<"tools", "agent">>, <<"agent", END>>}
ConditionalTargets(node, messages) ==
    IF node = "agent" THEN {tools_condition(messages)} ELSE {}

\* The nodes scheduled after a node: the targets of its edges; an edge to END
\* schedules nothing.
NextNodes(node, messages) ==
    ({e[2] : e \in {x \in StaticEdges : x[1] = node}}
        \cup ConditionalTargets(node, messages)) \ {END}

\* The graph has at most one node to run at a time.
NextPc(node, messages) ==
    IF NextNodes(node, messages) = {} THEN "end"
    ELSE CHOOSE n \in NextNodes(node, messages) : TRUE

\* build_graph: compile with the checkpointer only when memory is enabled.
CompileNoCheckpointer(enabled) == "no_checkpointer"

\* A compile that passes the checkpointer whatever the setting.
CompileAlwaysCheckpointer(enabled) == "with_checkpointer"

Compile(enabled) == IF enabled THEN "with_checkpointer" ELSE "no_checkpointer"

\* A checkpointer that keeps one state for all thread ids.
CheckpointSharedState(g, saver, thread, messages) ==
    IF g = "with_checkpointer" THEN [t \in DOMAIN saver |-> messages]
    ELSE saver

\* The checkpointer saves the state after the input and after every node.
Checkpoint(g, saver, thread, messages) ==
    IF g = "with_checkpointer" THEN [saver EXCEPT ![thread] = messages]
    ELSE saver

\* The state a run starts from: with a checkpointer, the thread's saved
\* messages plus the input (the add_messages reducer appends); without,
\* the input alone.
InitialMessages(g, saver, thread, input) ==
    IF g = "with_checkpointer" THEN saver[thread] \o input ELSE input

\* if not thread_id: thread_id = self.default_thread_id
ThreadOrDefault(thread_arg) == IF thread_arg = "" THEN default_thread_id ELSE thread_arg

\* format_response: the response time, when the message carries a timestamp
\* (agent_function stamps every LLM response), followed by the content.
format_response(msg) == [stamped |-> msg.type = "ai", content |-> msg]
NoText == [stamped |-> FALSE, content |-> SYSTEM_PROMPT]

\* The keys of the dictionaries run_with_memory returns.
ErrorKeys == {"error"}
OkKeys == {"response", "thread_id", "timestamp", "memory_enabled",
           "conversation_length"}

NoRunResult == [kind |-> "none", keys |-> {}, response |-> NoText,
                thread_id |-> "none", memory_enabled |-> FALSE,
                conversation_length |-> 0, error |-> "none"]

\* A failure reported under the key "response".
ErrorResultAsResponse(err) ==
    [kind |-> "error", keys |-> {"response"}, response |-> NoText,
     thread_id |-> "none", memory_enabled |-> FALSE, conversation_length |-> 0,
     error |-> err]

\* {"error": ...}
ErrorResult(err) ==
    [kind |-> "error", keys |-> ErrorKeys, response |-> NoText,
     thread_id |-> "none", memory_enabled |-> FALSE, conversation_length |-> 0,
     error |-> err]
OkResult(messages, thread) ==
    [kind |-> "ok", keys |-> OkKeys,
     response |-> format_response(messages[Len(messages)]),
     thread_id |-> thread,
     memory_enabled |-> enable_memory, conversation_length |-> Len(messages),
     error |-> "none"]

\* No clear_conversation_history call yet; a call on a thread id and the
\* boolean it returned.
NoClear == [thread |-> "none", ok |-> FALSE]
Cleared(thread, ok) == [thread |-> thread, ok |-> ok]

EmptyMemory == [t \in AllThreadIds |-> <<>>]

InitGraph ==
    /\ enable_memory \in BOOLEAN
    /\ graph = "none"
    /\ memory = EmptyMemory
    /\ g_pc = "idle"
    /\ run_thread = "none"
    /\ state_msgs = <<>>
    /\ steps = <<>>
    /\ llm_input = <<>>
    /\ run_result = NoRunResult
    /\ runs = 0
    /\ ok_msgs = [t \in AllThreadIds |-> <<>>]
    /\ ok_lens = [t \in AllThreadIds |-> <<>>]
    /\ history_ret = <<>>
    /\ clear_ret = NoClear

\* The resting values of the graph variables, for the other specifications.
IdleGraph ==
    /\ enable_memory = FALSE
    /\ graph = "none"
    /\ memory = EmptyMemory
    /\ g_pc = "idle"
    /\ run_thread = "none"
    /\ state_msgs = <<>>
    /\ steps = <<>>
    /\ llm_input = <<>>
    /\ run_result = NoRunResult
    /\ runs = 0
    /\ ok_msgs = [t \in AllThreadIds |-> <<>>]
    /\ ok_lens = [t \in AllThreadIds |-> <<>>]
    /\ history_ret = <<>>
    /\ clear_ret = NoClear

\* The variables of the other components, which no graph action changes.
GraphFrame == UNCHANGED <<newsVars, speechVars, apiVars, cliVars>>

\* build_graph
BuildGraph ==
    /\ g_pc = "idle"
    /\ graph = "none"
    /\ graph' = Compile(enable_memory)
    /\ UNCHANGED <<enable_memory, memory, g_pc, run_thread, state_msgs, steps,
                   llm_input, run_result, runs, ok_msgs, ok_lens, history_ret,
                   clear_ret>>
    /\ GraphFrame

\* run_with_memory before build_graph: {"error": "Graph not initialized"}
RunNotInitialized ==
    /\ g_pc = "idle"
    /\ graph = "none"
    /\ runs < MaxRuns
    /\ runs' = runs + 1
    /\ run_result' = ErrorResult("Graph not initialized")
    /\ UNCHANGED <<enable_memory, graph, memory, g_pc, run_thread, state_msgs,
                   steps, llm_input, ok_msgs, ok_lens, history_ret, clear_ret>>
    /\ GraphFrame

\* The start of self.graph.invoke({"messages": [user_message]}, config): the
\* input is added to the thread's state and the START edge schedules the agent.
Invoke(g, saver, thread) ==
    LET messages == InitialMessages(g, saver, thread, <<HumanMessage(runs + 1)>>)
    IN  /\ runs' = runs + 1
        /\ run_thread' = thread
        /\ state_msgs' = messages
        /\ memory' = Checkpoint(g, saver, thread, messages)
        /\ steps' = <<>>
        /\ llm_input' = <<>>
        /\ g_pc' = NextPc(START, messages)

\* run_with_memory(query, thread_id) on a built graph, up to the invoke.
RunWithMemory ==
    /\ g_pc = "idle"
    /\ graph # "none"
    /\ runs < MaxRuns
    /\ \E thread_arg \in ThreadArgs : Invoke(graph, memory, ThreadOrDefault(thread_arg))
    /\ UNCHANGED <<enable_memory, graph, run_result, ok_msgs, ok_lens,
                   history_ret, clear_ret>>
    /\ GraphFrame

\* The agent node: the LLM is invoked on the system prompt and the messages;
\* its response is appended.  A raise ends the run: run_with_memory's except
\* returns {"error": ...}, and the thread keeps its last checkpoint.
AgentStep ==
    /\ g_pc = "agent"
    /\ llm_input' = AgentInput(state_msgs)
    /\ \E out \in LLMOutcomes :
          /\ out.kind = "tools" => Len(steps) + 2 < MaxSupersteps
          /\ IF out.kind = "raise"
             THEN /\ g_pc' = "idle"
                  /\ run_result' = ErrorResult("Error running agent")
                  /\ steps' = Append(steps, [node |-> "agent", tool_calls |-> 0,
                                             raised |-> TRUE])
                  /\ UNCHANGED <<state_msgs, memory>>
             ELSE LET messages == Append(state_msgs,
                                         AIMessage(runs, Len(steps) + 1, out.n))
                  IN  /\ state_msgs' = messages
                      /\ memory' = Checkpoint(graph, memory, run_thread, messages)
                      /\ steps' = Append(steps, [node |-> "agent",
                                                 tool_calls |-> out.n,
                                                 raised |-> FALSE])
                      /\ g_pc' = NextPc("agent", messages)
                      /\ UNCHANGED run_result
    /\ UNCHANGED <<enable_memory, graph, run_thread, runs, ok_msgs, ok_lens,
                   history_ret, clear_ret>>
    /\ GraphFrame

\* The tool messages a ToolNode appends for the n calls of the last response.
ToolMessages(run, step, n) == [i \in 1..n |-> ToolMessage(run, step, i)]

\* The tools node: every requested tool is executed (each tool returns a
\* string, also when it fails) and its result appended.
ToolsStep ==
    /\ g_pc = "tools"
    /\ LET n == state_msgs[Len(state_msgs)].tool_calls
           messages == state_msgs \o ToolMessages(runs, Len(steps) + 1, n)
       IN  /\ state_msgs' = messages
           /\ memory' = Checkpoint(graph, memory, run_thread, messages)
           /\ steps' = Append(steps, [node |-> "tools", tool_calls |-> n,
                                      raised |-> FALSE])
           /\ g_pc' = NextPc("tools", messages)
    /\ UNCHANGED <<enable_memory, graph, run_thread, llm_input, run_result, runs,
                   ok_msgs, ok_lens, history_ret, clear_ret>>
    /\ GraphFrame

\* invoke has returned the final state: run_with_memory formats the last
\* message and returns the result dictionary.
RunReturn ==
    /\ g_pc = "end"
    /\ g_pc' = "idle"
    /\ IF state_msgs # <<>>
       THEN /\ run_result' = OkResult(state_msgs, run_thread)
            /\ ok_msgs' = [ok_msgs EXCEPT ![run_thread] = state_msgs]
            /\ ok_lens' = [ok_lens EXCEPT ![run_thread] = Append(@, Len(state_msgs))]
       ELSE /\ run_result' = ErrorResult("No response generated")
            /\ UNCHANGED <<ok_msgs, ok_lens>>
    /\ UNCHANGED <<enable_memory, graph, memory, run_thread, state_msgs, steps,
                   llm_input, runs, history_ret, clear_ret>>
    /\ GraphFrame

\* The role of a message in get_conversation_history.
Role(msg) == IF msg.type \in {"human", "ai", "system"} THEN msg.type ELSE "assistant"
History(messages) == [i \in 1..Len(messages) |-> [role |-> Role(messages[i]),
                                                  content |-> messages[i]]]

\* get_conversation_history(thread_id)
GetConversationHistory ==
    /\ g_pc = "idle"
    /\ \E thread \in ThreadIds :
          history_ret' = IF ~enable_memory \/ graph = "none" THEN <<>>
                         ELSE History(memory[thread])
    /\ UNCHANGED <<enable_memory, graph, memory, g_pc, run_thread, state_msgs,
                   steps, llm_input, run_result, runs, ok_msgs, ok_lens, clear_ret>>
    /\ GraphFrame

\* graph.update_state(config, {"messages": []}): the update goes through the
\* add_messages reducer of MessagesState, which appends the given messages.
UpdateState(thread, messages) == [memory EXCEPT ![thread] = @ \o messages]

\* clear_conversation_history(thread_id)
ClearConversationHistory ==
    /\ g_pc = "idle"
    /\ \E thread \in ThreadIds :
          IF ~enable_memory \/ graph = "none"
          THEN /\ clear_ret' = Cleared(thread, FALSE)
               /\ UNCHANGED memory
          ELSE /\ memory' = UpdateState(thread, <<>>)
               /\ clear_ret' = Cleared(thread, TRUE)
    /\ UNCHANGED <<enable_memory, graph, g_pc, run_thread, state_msgs, steps,
                   llm_input, run_result, runs, ok_msgs, ok_lens, history_ret>>
    /\ GraphFrame

NextGraph ==
    \/ BuildGraph
    \/ RunNotInitialized
    \/ RunWithMemory
    \/ AgentStep
    \/ ToolsStep
    \/ RunReturn
    \/ GetConversationHistory
    \/ ClearConversationHistory

\* =================================================================== API ==
\* The request's thread_id left aside.
ApiThreadAlwaysDefault(thread_id) == "api_default"

\* query.thread_id or "api_default"
ApiThreadOrDefault(thread_id) == IF thread_id = "" THEN "api_default" ELSE thread_id
ApiThreadArgs == {"", "t1"}

\* The audio_file_path of a request: absent, a path to no file, a path to a
\* file, and a path to no file whose text holds the words "Transcription
\* successful" (the tool echoes the path in its "not found" message).
MarkerPaths == {"missing_named_successful"}
AudioPaths == {"none", "missing", "present"} \cup MarkerPaths

\* The language of a request; an omitted one takes the configured default.
ApiLanguage(language) == IF language = "" THEN api_default_language ELSE language

\* The language values of a request: omitted, supported, unsupported.
ApiLangArgs == {"", "en-US", "xx-XX"}

\* The environments that matter to the transcription of a file: the parts
\* the file tool never reaches are held at one value.
FileEnvs ==
    {env \in SpeechEnvs :
        /\ env.mic = "audio" /\ env.decode = "ok"
        /\ env.file = "unreadable" => env.google = "text"
        /\ env.google # "unknown_value" => env.sphinx = "text"}

\* main.py calls the decorated tool object with two positional arguments,
\* transcribe_audio_file(path, language).  Depending on the installed
\* langchain-core the call runs the function or raises, which the handler's
\* except turns into a 500.
DirectCalls == {"runs", "raises"}

\* query.question: the text the client sent, or the text the handler puts in
\* its place after a transcription.
NoQuestion == [kind |-> "none", text |-> ""]
OriginalQuestion == [kind |-> "original", text |-> ""]
TemplateQuestion(text) == [kind |-> "Based on this transcribed audio", text |-> text]

NoRequest == [id |-> 0, endpoint |-> "none", audio |-> "none", language |-> "",
              thread_id |-> "", question |-> NoQuestion]
Request(id, endpoint, audio, language, thread_id) ==
    [id |-> id, endpoint |-> endpoint, audio |-> audio, language |-> language,
     thread_id |-> thread_id, question |-> OriginalQuestion]

NoResponse == [status |-> 0, keys |-> {}, error |-> "none", answer |-> NoText,
               thread_id |-> "none", memory_enabled |-> FALSE, success |-> "none",
               transcription |-> ""]
\* JSONResponse(status_code=..., content={"error": ..., ...})
ErrorResponse(status, error, success) ==
    [status |-> status,
     keys |-> {"error", "timestamp"}
              \cup (IF success = "none" THEN {} ELSE {"success"}),
     error |-> error, answer |-> NoText,
     thread_id |-> "none", memory_enabled |-> FALSE, success |-> success,
     transcription |-> ""]
\* the body returned by POST /query
QueryResponse(result, thread) ==
    [status |-> 200,
     keys |-> {"answer", "timestamp", "model_provider", "thread_id",
               "memory_enabled", "audio_processed", "language"},
     error |-> "none", answer |-> result.response,
     thread_id |-> thread, memory_enabled |-> result.memory_enabled,
     success |-> "none", transcription |-> ""]
\* the body returned by POST /transcribe
TranscribeResponse(text) ==
    [status |-> 200,
     keys |-> {"transcription", "success", "language", "timestamp"},
     error |-> "none", answer |-> NoText, thread_id |-> "none",
     memory_enabled |-> FALSE, success |-> "true", transcription |-> text]

\* if "error" in result: a 500 with the error; else the answer.
query_response(result, thread) ==
    IF "error" \in result.keys THEN ErrorResponse(500, result.error, "none")
    ELSE QueryResponse(result, thread)

\* "Transcription successful" in result
TranscriptionSuccessful(ret) == ret.kind = "Transcription successful"

\* The same test on the string a handler holds: the words are in the tool's
\* success message, and in its "not found" message when the echoed path
\* holds them.
ContainsSuccessMarker(ret, audio) ==
    \/ TranscriptionSuccessful(ret)
    \/ ret.kind = "Error: Audio file not found" /\ audio \in MarkerPaths

\* result.split("\n\n")[-1]: the text after the success message's blank
\* line; a message without a blank line is returned whole.
TranscribedText(ret) ==
    IF TranscriptionSuccessful(ret) THEN ret.text ELSE ret.kind

InitApi ==
    /\ api_default_language \in {"en-US", "xx-XX"}
    /\ api_pc = "idle"
    /\ api_req = NoRequest
    /\ api_resp = NoResponse

\* The resting values of the API variables, for the other specifications.
IdleApi ==
    /\ api_default_language = "en-US"
    /\ api_pc = "idle"
    /\ api_req = NoRequest
    /\ api_resp = NoResponse

\* The variables no API action changes.
ApiFrame == UNCHANGED <<newsVars, default_language, supported_languages,
                        api_default_language, enable_memory, ok_msgs, ok_lens,
                        history_ret, clear_ret, cliVars>>

\* The call of the transcription tool by a handler.
ToolCalled(exists, language, env, out) ==
    /\ sp_call' = [tool |-> "transcribe_audio_file", exists |-> exists,
                   language |-> language, duration |-> 0,
                   start_timeout |-> NoneNum, env |-> "none"]
    /\ sp_log' = out.log
    /\ sp_result' = out.result
    /\ sp_return' = out.ret
    /\ sp_pc' = "done"

ToolNotCalled == UNCHANGED <<sp_pc, sp_call, sp_log, sp_result, sp_return>>

NoGraphRun == UNCHANGED <<graph, memory, g_pc, run_thread, state_msgs, steps,
                          llm_input, run_result, runs>>

\* The existence check of POST /transcribe.
PathExistsUnchecked(exists) == TRUE

PathExists(exists) == exists

\* POST /transcribe
ApiTranscribe ==
    /\ api_pc = "idle"
    /\ api_req.id < MaxRequests
    /\ \E audio \in AudioPaths \ {"none"}, language_arg \in ApiLangArgs,
          env \in FileEnvs, direct \in DirectCalls :
          LET exists == audio = "present"
              language == ApiLanguage(language_arg)
              out == transcribe_audio_file(exists, language, env)
          IN  /\ api_req' = Request(api_req.id + 1, "/transcribe", audio,
                                    language_arg, "")
              /\ IF ~PathExists(exists)
                 THEN /\ api_resp' = ErrorResponse(404, "Audio file not found", "none")
                      /\ ToolNotCalled
                 ELSE IF direct = "raises"
                 THEN /\ api_resp' = ErrorResponse(500, "exception", "false")
                      /\ ToolNotCalled
                 ELSE /\ ToolCalled(exists, language, env, out)
                      /\ api_resp' = IF ContainsSuccessMarker(out.ret, audio)
                                     THEN TranscribeResponse(TranscribedText(out.ret))
                                     ELSE ErrorResponse(400, out.ret.kind, "false")
    /\ UNCHANGED api_pc
    /\ NoGraphRun
    /\ ApiFrame

\* GraphBuilder(model_provider=...) followed by graph(): a new builder with
\* a new MemorySaver, compiled, then run_with_memory up to the invoke.
NewGraphRun(thread) ==
    /\ graph' = Compile(enable_memory)
    /\ Invoke(Compile(enable_memory), EmptyMemory, thread)
    /\ UNCHANGED run_result

\* POST /query, up to the start of the agent run.
ApiQuery ==
    /\ api_pc = "idle"
    /\ api_req.id < MaxRequests
    /\ \E audio \in AudioPaths, language_arg \in ApiLangArgs,
          thread_id \in ApiThreadArgs,
          env \in FileEnvs, direct \in DirectCalls :
          LET exists == audio = "present"
              language == ApiLanguage(language_arg)
              out == transcribe_audio_file(exists, language, env)
              transcribed == /\ audio # "none"
                             /\ direct = "runs"
                             /\ ContainsSuccessMarker(out.ret, audio)
          IN  /\ api_req' = [Request(api_req.id + 1, "/query", audio,
                                     language_arg, thread_id)
                             EXCEPT !.question =
                                 IF transcribed
                                 THEN TemplateQuestion(TranscribedText(out.ret))
                                 ELSE @]
              /\ IF audio = "none"
                 THEN /\ ToolNotCalled
                      /\ NewGraphRun(ApiThreadOrDefault(thread_id))
                      /\ api_pc' = "query"
                      /\ UNCHANGED api_resp
                 ELSE IF direct = "raises"
                 THEN /\ ToolNotCalled
                      /\ NoGraphRun
                      /\ api_resp' = ErrorResponse(500, "exception", "none")
                      /\ UNCHANGED api_pc
                 ELSE /\ ToolCalled(exists, language, env, out)
                      /\ IF ContainsSuccessMarker(out.ret, audio)
                         THEN /\ NewGraphRun(ApiThreadOrDefault(thread_id))
                              /\ api_pc' = "query"
                              /\ UNCHANGED api_resp
                         ELSE /\ NoGraphRun
                              /\ api_resp' = ErrorResponse(400, out.ret.kind, "none")
                              /\ UNCHANGED api_pc
    /\ ApiFrame

\* POST /query after run_with_memory has returned.
ApiQueryResponse ==
    /\ api_pc = "query"
    /\ g_pc = "idle"
    /\ api_pc' = "idle"
    /\ api_resp' = query_response(run_result, ApiThreadOrDefault(api_req.thread_id))
    /\ UNCHANGED api_req
    /\ ToolNotCalled
    /\ NoGraphRun
    /\ ApiFrame

NextApi ==
    \/ ApiTranscribe
    \/ ApiQuery
    \/ AgentStep
    \/ ToolsStep
    \/ RunReturn
    \/ ApiQueryResponse

\* =================================================================== CLI ==
\* The inputs typed at the prompt, after strip(), as their words.
CliInputs ==
    {<<"quit">>, <<"exit">>, <<"q">>, <<"QUIT">>, <<>>, <<"help">>, <<"clear">>,
     <<"mics">>, <<"voices">>, <<"dashboard">>,
     <<"debug", "on">>, <<"debug", "off">>,
     <<"trace", "on">>, <<"trace", "off">>, <<"trace", "on", "p1">>,
     <<"speak">>, <<"thread">>, <<"thread", "t1">>, <<"thread", "t2">>,
     <<"listen">>, <<"listen", "5", "xx-XX">>, <<"news">>,
     <<"help", "news">>, <<"listening", "news">>, <<"debug">>}

\* str.lower() on the words in use.
Lower(word) == IF word = "QUIT" THEN "quit" ELSE word

First(input) == IF input = <<>> THEN "" ELSE Lower(input[1])

\* str.startswith on the line, which looks at the first word only: the words
\* in use that begin with the given one.
StartsWith(input, word) ==
    \/ First(input) = word
    \/ word = "listen" /\ First(input) = "listening"

\* The branch of the loop an input takes, tested in the order of the code.
\* 'debug ', 'trace ' and 'thread ' need a second word; 'listen' and 'speak'
\* only the prefix.
Command(input) ==
    IF Len(input) = 1 /\ First(input) \in {"quit", "exit", "q"} THEN "quit"
    ELSE IF Len(input) = 1 /\ First(input) = "help" THEN "help"
    ELSE IF StartsWith(input, "listen") THEN "listen"
    ELSE IF Len(input) = 1 /\ First(input) = "clear" THEN "clear"
    ELSE IF Len(input) = 1 /\ First(input) = "mics" THEN "mics"
    ELSE IF Len(input) = 1 /\ First(input) = "voices" THEN "voices"
    ELSE IF Len(input) >= 2 /\ First(input) = "debug" THEN "debug"
    ELSE IF Len(input) >= 2 /\ First(input) = "trace" THEN "trace"
    ELSE IF Len(input) = 1 /\ First(input) = "dashboard" THEN "dashboard"
    ELSE IF StartsWith(input, "speak") THEN "speak"
    ELSE IF Len(input) >= 2 /\ First(input) = "thread" THEN "thread"
    ELSE IF input = <<>> THEN "empty"
    ELSE "query"

\* The commands answered by a print alone, and those that call a tool, the
\* operating system or the tracing helpers, which may raise.
PlainCommands == {"help", "empty"}
ExternalCommands == {"clear", "mics", "voices", "dashboard"}

\* ---- utils/debug.py, on os.environ
\* The environment of the process: the three LANGCHAIN_* settings, whether
\* LANGCHAIN_API_KEY or LANGSMITH_API_KEY is set, and LANGSMITH_PROJECT.  A
\* session starts with or without a key and with the other settings unset.
Unset == "unset"
Environments ==
    [LANGCHAIN_TRACING_V2 : {Unset}, LANGCHAIN_DEBUG : {Unset},
     LANGCHAIN_PROJECT : {Unset}, api_key : BOOLEAN,
     LANGSMITH_PROJECT : {Unset}]
NoEnvironment ==
    [LANGCHAIN_TRACING_V2 |-> Unset, LANGCHAIN_DEBUG |-> Unset,
     LANGCHAIN_PROJECT |-> Unset, api_key |-> FALSE, LANGSMITH_PROJECT |-> Unset]

\* a or b on two optional strings
Or(a, b) == IF a # Unset THEN a ELSE b

\* enable_langchain_debug(enabled)
enable_langchain_debug(env, enabled) ==
    [env EXCEPT !.LANGCHAIN_TRACING_V2 = "false",
                !.LANGCHAIN_DEBUG = IF enabled THEN "true" ELSE "false"]

\* enable_langsmith(api_key, project, enabled), api_key being what the loop
\* read from the environment
enable_langsmith(env, project, enabled) ==
    IF enabled /\ env.api_key
    THEN [env EXCEPT !.LANGCHAIN_TRACING_V2 = "true",
                     !.LANGCHAIN_PROJECT = Or(Or(project, env.LANGSMITH_PROJECT), @),
                     !.LANGCHAIN_DEBUG = Or(@, "false")]
    ELSE [env EXCEPT !.LANGCHAIN_TRACING_V2 = "false",
                     !.LANGCHAIN_PROJECT = Unset]

\* arg == 'on' of the debug command
DebugOn(input) == input[2] = "on"
\* on = parts[1].lower() == 'on' if len(parts) > 1 else False
TraceOn(input) == Len(input) > 1 /\ input[2] = "on"
\* project = parts[2] if len(parts) > 2 else None
TraceProject(input) == IF Len(input) > 2 THEN input[3] ELSE Unset

\* self.thread_id = user_input.split(' ', 1)[1].strip() or self.thread_id
ThreadCommandIdIgnored(input, current) == current

ThreadCommandId(input, current) ==
    IF Len(input) >= 2 /\ input[2] # "" THEN input[2] ELSE current

\* language = parts[2] if len(parts) >= 3 else self.default_language
ListenLanguage(input) == IF Len(input) >= 3 THEN input[3] ELSE default_language

\* The microphone environments, the parts the tool never reaches held at
\* one value.
MicEnvs ==
    {env \in SpeechEnvs :
        /\ env.file = "audio" /\ env.decode = "ok"
        /\ env.mic # "audio" => env.google = "text"
        /\ env.google # "unknown_value" => env.sphinx = "text"}

\* process_query: the marked error, or result.get("response", "").
process_query(agent, result) ==
    IF agent = "none"
    THEN [marker |-> TRUE, error |-> "Agent not initialized", answer |-> NoText]
    ELSE IF "error" \in result.keys
    THEN [marker |-> TRUE, error |-> result.error, answer |-> NoText]
    ELSE [marker |-> FALSE, error |-> "none", answer |-> result.response]

NoAgentResponse == [marker |-> FALSE, error |-> "none", answer |-> NoText]

\* The argument of process_query: the line typed, or the text heard.
NoQuery == [from |-> "none", line |-> <<>>, text |-> ""]
TypedQuery(input) == [from |-> "typed", line |-> input, text |-> ""]
SpokenQuery(text) == [from |-> "spoken", line |-> <<>>, text |-> text]

\* The first response kept for good.
KeptResponseFirst(response, previous) ==
    IF previous = NoAgentResponse THEN response ELSE previous

\* last_agent_response = response, after a typed and after a spoken query
KeptResponse(response, previous) == response

\* What the loop prints: its kind and, for an agent response, the response
\* framed by NewsAggregatorCLI.format_response.
Printed(kind) == [kind |-> kind, response |-> NoAgentResponse]
cli_format_response(response) == [kind |-> "response", response |-> response]

\* except Exception: the error is printed and the loop goes on.
AfterExceptionEnds == "ended"

AfterException == "prompt"

InitCli ==
    /\ cli_pc = "start"
    /\ session_active = TRUE
    /\ cli_agent = "none"
    /\ cli_thread_id = "cli_default"
    /\ cli_input = <<>>
    /\ cli_reads = 0
    /\ cli_printed = Printed("none")
    /\ last_agent_response = NoAgentResponse
    /\ cli_interrupted = FALSE
    /\ cli_thread_cmd = ""
    /\ os_environ \in Environments
    /\ tts_text = NoAgentResponse
    /\ cli_query = NoQuery

\* The resting values of the command line variables, for the other
\* specifications.
IdleCli ==
    /\ cli_pc = "start"
    /\ session_active = TRUE
    /\ cli_agent = "none"
    /\ cli_thread_id = "cli_default"
    /\ cli_input = <<>>
    /\ cli_reads = 0
    /\ cli_printed = Printed("none")
    /\ last_agent_response = NoAgentResponse
    /\ cli_interrupted = FALSE
    /\ cli_thread_cmd = ""
    /\ os_environ = NoEnvironment
    /\ tts_text = NoAgentResponse
    /\ cli_query = NoQuery

\* The variables no command line action changes.
CliFrame == UNCHANGED <<newsVars, apiVars, default_language, supported_languages,
                        enable_memory, ok_msgs, ok_lens, history_ret, clear_ret>>

GraphIdle == UNCHANGED <<graph, memory, g_pc, run_thread, state_msgs, steps,
                         llm_input, run_result, runs>>

\* run() up to the loop: display_welcome and initialize_agent, which builds
\* the GraphBuilder and its graph, or fails and makes run return.
CliStart ==
    /\ cli_pc = "start"
    /\ \E initialized \in BOOLEAN :
          IF initialized
          THEN /\ cli_agent' = "ready"
               /\ graph' = Compile(enable_memory)
               /\ memory' = EmptyMemory
               /\ cli_pc' = "prompt"
               /\ cli_printed' = Printed("ready")
          ELSE /\ cli_pc' = "failed"
               /\ cli_printed' = Printed("init_failed")
               /\ UNCHANGED <<cli_agent, graph, memory>>
    /\ UNCHANGED <<session_active, cli_thread_id, cli_input, cli_reads,
                   last_agent_response, cli_interrupted, cli_thread_cmd>>
    /\ UNCHANGED <<g_pc, run_thread, state_msgs, steps, llm_input, run_result, runs>>
    /\ ToolNotCalled
    /\ UNCHANGED <<os_environ, tts_text>>
    /\ UNCHANGED cli_query
    /\ CliFrame

\* while self.session_active: user_input = input(...).strip()
CanRead == cli_pc = "prompt" /\ session_active /\ cli_reads < MaxInputs

Read(input) ==
    /\ cli_input' = input
    /\ cli_reads' = cli_reads + 1

\* 'quit', 'exit', 'q'
CliQuit ==
    /\ CanRead
    /\ \E input \in CliInputs :
          /\ Command(input) = "quit"
          /\ Read(input)
    /\ session_active' = FALSE
    /\ cli_pc' = "ended"
    /\ cli_printed' = Printed("goodbye")
    /\ UNCHANGED <<cli_agent, cli_thread_id, last_agent_response, cli_interrupted,
                   cli_thread_cmd>>
    /\ GraphIdle
    /\ ToolNotCalled
    /\ UNCHANGED <<os_environ, tts_text>>
    /\ UNCHANGED cli_query
    /\ CliFrame

\* except KeyboardInterrupt, at the prompt or while an input is handled.
CliInterrupt ==
    /\ cli_pc \in {"prompt", "query"}
    /\ cli_interrupted' = TRUE
    /\ session_active' = FALSE
    /\ cli_pc' = "ended"
    /\ cli_printed' = Printed("interrupted")
    /\ g_pc' = "idle"
    /\ UNCHANGED <<cli_agent, cli_thread_id, cli_input, cli_reads,
                   last_agent_response, cli_thread_cmd>>
    /\ UNCHANGED <<graph, memory, run_thread, state_msgs, steps, llm_input,
                   run_result, runs>>
    /\ ToolNotCalled
    /\ UNCHANGED <<os_environ, tts_text>>
    /\ UNCHANGED cli_query
    /\ CliFrame

\* help, clear, mics, voices, dashboard and the empty input.
CliCommand ==
    /\ CanRead
    /\ \E input \in CliInputs, raised \in BOOLEAN :
          /\ Command(input) \in PlainCommands \cup ExternalCommands
          /\ raised => Command(input) \in ExternalCommands
          /\ Read(input)
          /\ IF raised
             THEN /\ cli_printed' = Printed("exception")
                  /\ cli_pc' = AfterException
             ELSE /\ cli_printed' = Printed(Command(input))
                  /\ cli_pc' = "prompt"
    /\ UNCHANGED <<session_active, cli_agent, cli_thread_id, last_agent_response,
                   cli_interrupted, cli_thread_cmd>>
    /\ GraphIdle
    /\ ToolNotCalled
    /\ UNCHANGED <<os_environ, tts_text>>
    /\ UNCHANGED cli_query
    /\ CliFrame

\* debug on|off
CliDebug ==
    /\ CanRead
    /\ \E input \in CliInputs :
          /\ Command(input) = "debug"
          /\ Read(input)
          /\ os_environ' = enable_langchain_debug(os_environ, DebugOn(input))
          /\ cli_printed' = Printed(IF DebugOn(input) THEN "debug ON" ELSE "debug OFF")
    /\ cli_pc' = "prompt"
    /\ UNCHANGED <<session_active, cli_agent, cli_thread_id, last_agent_response,
                   cli_interrupted, cli_thread_cmd>>
    /\ GraphIdle
    /\ ToolNotCalled
    /\ UNCHANGED tts_text
    /\ UNCHANGED cli_query
    /\ CliFrame

\* trace on|off [project]: the settings are changed and the status is
\* printed; with 'on' the dashboard is then opened in the browser, which may
\* raise.
CliTrace ==
    /\ CanRead
    /\ \E input \in CliInputs, raised \in BOOLEAN :
          /\ Command(input) = "trace"
          /\ raised => TraceOn(input)
          /\ Read(input)
          /\ os_environ' = enable_langsmith(os_environ, TraceProject(input),
                                            TraceOn(input))
          /\ IF raised
             THEN /\ cli_printed' = Printed("exception")
                  /\ cli_pc' = AfterException
             ELSE /\ cli_printed' = Printed(IF TraceOn(input) THEN "tracing ON"
                                            ELSE "tracing OFF")
                  /\ cli_pc' = "prompt"
    /\ UNCHANGED <<session_active, cli_agent, cli_thread_id, last_agent_response,
                   cli_interrupted, cli_thread_cmd>>
    /\ GraphIdle
    /\ ToolNotCalled
    /\ UNCHANGED tts_text
    /\ UNCHANGED cli_query
    /\ CliFrame

\* speak: the last response is spoken, if there is one.
CliSpeak ==
    /\ CanRead
    /\ \E input \in CliInputs, raised \in BOOLEAN :
          /\ Command(input) = "speak"
          /\ raised => last_agent_response # NoAgentResponse
          /\ Read(input)
          /\ tts_text' = IF last_agent_response = NoAgentResponse THEN tts_text
                         ELSE last_agent_response
          /\ IF raised
             THEN /\ cli_printed' = Printed("exception")
                  /\ cli_pc' = AfterException
             ELSE /\ cli_printed' = IF last_agent_response = NoAgentResponse
                                    THEN Printed("nothing_to_speak")
                                    ELSE Printed("spoken")
                  /\ cli_pc' = "prompt"
    /\ UNCHANGED <<session_active, cli_agent, cli_thread_id, last_agent_response,
                   cli_interrupted, cli_thread_cmd>>
    /\ GraphIdle
    /\ ToolNotCalled
    /\ UNCHANGED os_environ
    /\ UNCHANGED cli_query
    /\ CliFrame

\* thread <id>
CliThread ==
    /\ CanRead
    /\ \E input \in CliInputs :
          /\ Command(input) = "thread"
          /\ Read(input)
          /\ cli_thread_id' = ThreadCommandId(input, cli_thread_id)
          /\ cli_thread_cmd' = input[2]
    /\ cli_printed' = Printed("thread_set")
    /\ cli_pc' = "prompt"
    /\ UNCHANGED <<session_active, cli_agent, last_agent_response, cli_interrupted>>
    /\ GraphIdle
    /\ ToolNotCalled
    /\ UNCHANGED <<os_environ, tts_text>>
    /\ UNCHANGED cli_query
    /\ CliFrame

\* self.agent.run_with_memory(query, thread_id=self.thread_id), up to the
\* invoke.
CliRun(query) ==
    /\ Invoke(graph, memory, ThreadOrDefault(cli_thread_id))
    /\ cli_query' = query
    /\ cli_pc' = "query"
    /\ cli_printed' = Printed("searching")
    /\ UNCHANGED <<graph, run_result>>

\* listen [seconds] [lang] [device_index] [start_timeout]: the microphone
\* tool is invoked; a successful transcript is processed as a query.
CliListen ==
    /\ CanRead
    /\ \E input \in CliInputs, env \in MicEnvs :
          LET language == ListenLanguage(input)
              out == transcribe_audio_from_microphone(language, NoneNum, env)
          IN  /\ Command(input) = "listen"
              /\ Feasible(NoneNum, env)
              /\ TranscriptionSuccessful(out.ret) => runs < MaxRuns
              /\ Read(input)
              /\ sp_call' = [tool |-> "transcribe_audio_from_microphone",
                             exists |-> FALSE, language |-> language,
                             duration |-> 5, start_timeout |-> NoneNum,
                             env |-> "none"]
              /\ sp_log' = out.log
              /\ sp_result' = out.result
              /\ sp_return' = out.ret
              /\ sp_pc' = "done"
              /\ IF TranscriptionSuccessful(out.ret)
                 THEN CliRun(SpokenQuery(TranscribedText(out.ret)))
                 ELSE /\ cli_printed' = Printed("transcript_failed")
                      /\ UNCHANGED cli_query
                      /\ cli_pc' = "prompt"
                      /\ GraphIdle
    /\ UNCHANGED <<session_active, cli_agent, cli_thread_id, last_agent_response,
                   cli_interrupted, cli_thread_cmd>>
    /\ UNCHANGED <<os_environ, tts_text>>
    /\ CliFrame

\* Any other input is a query.
CliQuery ==
    /\ CanRead
    /\ runs < MaxRuns
    /\ \E input \in CliInputs :
          /\ Command(input) = "query"
          /\ Read(input)
          /\ CliRun(TypedQuery(input))
    /\ UNCHANGED <<session_active, cli_agent, cli_thread_id, last_agent_response,
                   cli_interrupted, cli_thread_cmd>>
    /\ ToolNotCalled
    /\ UNCHANGED <<os_environ, tts_text>>
    /\ CliFrame

\* process_query has the result: the response is formatted, printed and kept.
CliQueryDone ==
    /\ cli_pc = "query"
    /\ g_pc = "idle"
    /\ cli_printed' = cli_format_response(process_query(cli_agent, run_result))
    /\ last_agent_response' = KeptResponse(process_query(cli_agent, run_result),
                                            last_agent_response)
    /\ cli_pc' = "prompt"
    /\ UNCHANGED <<session_active, cli_agent, cli_thread_id, cli_input, cli_reads,
                   cli_interrupted, cli_thread_cmd>>
    /\ GraphIdle
    /\ ToolNotCalled
    /\ UNCHANGED <<os_environ, tts_text>>
    /\ UNCHANGED cli_query
    /\ CliFrame

NextCli ==
    \/ CliStart
    \/ CliQuit
    \/ CliInterrupt
    \/ CliCommand
    \/ CliDebug
    \/ CliTrace
    \/ CliSpeak
    \/ CliThread
    \/ CliListen
    \/ CliQuery
    \/ AgentStep
    \/ ToolsStep
    \/ RunReturn
    \/ CliQueryDone

\*+ components above

\* ======================================================== SPECIFICATIONS ==
\* The news tools alone.
NewsStart == InitNews /\ IdleSpeech /\ IdleGraph /\ IdleApi /\ IdleCli
SpecNews == NewsStart /\ [][NextNews]_vars

\* The speech tools alone.
SpeechStart == InitSpeech /\ IdleNews /\ IdleGraph /\ IdleApi /\ IdleCli
SpecSpeech == SpeechStart /\ [][NextSpeech]_vars

\* One GraphBuilder used directly (agent/cli.py, agent/example_usage.py).
GraphStart == InitGraph /\ IdleNews /\ IdleSpeech /\ IdleApi /\ IdleCli
SpecGraph == GraphStart /\ [][NextGraph]_vars

\* graph.invoke runs synchronously inside run_with_memory: a scheduled node
\* is executed, and the call returns once no node is scheduled.
GraphFairness ==
    /\ WF_vars(AgentStep)
    /\ WF_vars(ToolsStep)
    /\ WF_vars(RunReturn)
SpecGraphLive == GraphStart /\ [][NextGraph]_vars /\ GraphFairness

\* The HTTP server: every POST /query builds its own GraphBuilder.
ApiStart == InitApi /\ InitGraph /\ IdleSpeech /\ IdleNews /\ IdleCli
SpecApi == ApiStart /\ [][NextApi]_vars

\* One interactive session of the command line.
CliStartState == InitCli /\ InitGraph /\ IdleSpeech /\ IdleNews /\ IdleApi
SpecCli == CliStartState /\ [][NextCli]_vars

\* ================================================================ CLAIMS ==
\* ---------------------------------------------------------- news claims --
RECURSIVE SumLens(_, _)
\* The sum of the lengths of the lists rec[k], k in keys.
SumLens(rec, keys) ==
    IF keys = {} THEN 0
    ELSE LET k == CHOOSE x \in keys : TRUE
         IN  Len(rec[k]) + SumLens(rec, keys \ {k})

RECURSIVE SumSources(_, _)
\* The sum of the lengths of all lists stored under sources, category by category.
SumSources(srcs, cats) ==
    IF cats = {} THEN 0
    ELSE LET c == CHOOSE x \in cats : TRUE
         IN  SumLens(srcs[c], DOMAIN srcs[c]) + SumSources(srcs, cats \ {c})

\* C1: total_articles always equals the sum of the lengths of all the result
\* lists stored under sources, and the comprehensive tool prints that sum as
\* its 'Total Articles Found'.
C1_TotalIsSumOfSources ==
    /\ total_articles = SumSources(agg_sources, DOMAIN agg_sources)
    /\ (news_output.kind = "report" /\ news_tool = "search_comprehensive_news")
          => news_output.total = SumSources(agg_sources, DOMAIN agg_sources)

\* C1 witness: a comprehensive report after a run in which the Tavily
\* fallback, LinkedIn, Medium and the financial sources all found articles.
C1_Witness ==
    /\ news_pc = "done"
    /\ news_tool = "search_comprehensive_news"
    /\ news_output.kind = "report"
    /\ Len(agg_sources["general"].tavily) > 0
    /\ Len(agg_sources["technology"].tech_sources) > 0
    /\ Len(agg_sources["technology"].linkedin) > 0
    /\ Len(agg_sources["technology"].medium) > 0
    /\ Len(agg_sources["business"].financial_sources) > 0
    /\ news_output.total = total_articles

\* C2: with neither TAVILY_API_KEY nor NEWS_API_KEY configured, every tool
\* that has returned has returned a string that is not an 'Error ...' string
\* (the only other way out of a tool is its except branch, which returns one).
C2_NoKeysNoError ==
    (~tavily_api_key /\ ~newsapi_key /\ news_pc = "done")
        => /\ news_output.kind \in {"report", "none_found"}
           /\ news_output.tool = news_tool

\* C2 witness: the comprehensive tool has returned with no key configured,
\* after calling all six search methods, none of which invoked its client.
C2_Witness ==
    /\ ~tavily_api_key /\ ~newsapi_key
    /\ news_pc = "done"
    /\ news_tool = "search_comprehensive_news"
    /\ Len(calls) = 6
    /\ invoked = <<>>
    /\ news_output.kind = "report"


\* -------------------------------------------------------- speech claims --
\* The operations of the log that invoke a recognizer or capture from the
\* microphone.
RecognizerOps == {"recognize_google", "recognize_sphinx"}
CaptureOps == {"open_microphone", "listen"}
Did(ops) == \E i \in 1..Len(sp_log) : sp_log[i].op \in ops

\* C3: a transcription tool called with a non-empty language code that is not
\* in supported_languages returns an error string, never 'Transcription
\* successful', and invokes neither recognizer nor the microphone.
C3_UnsupportedLanguageRejected ==
    (sp_pc = "done" /\ sp_call.language # ""
       /\ sp_call.language \notin supported_languages)
        => /\ sp_return.kind \in {"Error: Unsupported language",
                                  "Error: Audio file not found"}
           /\ (sp_return.kind = "Error: Audio file not found"
                  => (sp_call.tool = "transcribe_audio_file" /\ ~sp_call.exists))
           /\ ~Did(RecognizerOps \cup CaptureOps)

\* C3 witness: the microphone tool was called with an unsupported code in a
\* world where the microphone and Google would both have delivered.
C3_Witness ==
    /\ sp_pc = "done"
    /\ sp_call.tool = "transcribe_audio_from_microphone"
    /\ sp_call.language = "xx-XX"
    /\ "xx-XX" \notin supported_languages
    /\ sp_call.env.mic = "audio"
    /\ sp_call.env.google = "text"
    /\ sp_return.kind = "Error: Unsupported language"

\* Google was invoked on the captured audio and failed.
GoogleFailed ==
    /\ sp_pc = "done"
    /\ Did({"recognize_google"})
    /\ sp_call.env.google # "text"

\* C8: whenever Google fails on the captured audio, whatever the failure,
\* Sphinx is tried on the same audio after it, and a failure result is
\* returned only if Sphinx failed too.
C8_SphinxTriedOnEveryGoogleFailure ==
    GoogleFailed
        => /\ \E i, j \in 1..Len(sp_log) :
                 /\ i < j
                 /\ sp_log[i].op = "recognize_google"
                 /\ sp_log[j].op = "recognize_sphinx"
                 /\ sp_log[j].audio = sp_log[i].audio
           /\ (~sp_result.success => sp_call.env.sphinx # "text")

\* Listening timed out while waiting for a phrase to start.
ListeningTimedOut ==
    /\ sp_pc = "done"
    /\ sp_call.tool = "transcribe_audio_from_microphone"
    /\ sp_call.env.mic = "wait_timeout"
    /\ sp_log # <<>>
    /\ sp_log[Len(sp_log)].op = "listen"

\* The recognizer's connection timed out.
RecognizerTimedOut ==
    /\ Did({"recognize_google"})
    /\ sp_call.env.google = "connection_timed_out"

\* C9: when listening times out while waiting for a phrase to start, the
\* microphone tool returns 'Transcription failed' with the hint; and the hint
\* is returned only with a failure that is a timeout.
C9_HintOnTimeoutOnly ==
    /\ ListeningTimedOut
          => (sp_return.kind = "Transcription failed" /\ sp_return.hint
              /\ sp_return.detail = ListenTimedOut)
    /\ sp_return.hint
          => /\ sp_call.tool = "transcribe_audio_from_microphone"
             /\ sp_return.kind = "Transcription failed"
             /\ ListeningTimedOut \/ RecognizerTimedOut

\* C9 witness: no start_timeout was given (so the tool's default is in force)
\* and no phrase started before it ran out.
C9_Witness ==
    /\ ListeningTimedOut
    /\ sp_call.start_timeout = NoneNum
    /\ sp_return.hint

\* The messages prev of an earlier call stand, in order, in the LLM's input
\* of the running call, before the user message of the running call.
SeesPriorTurns(prev) ==
    /\ Len(llm_input) >= Len(prev) + 2
    /\ SubSeq(llm_input, 2, Len(prev) + 1) = prev
    /\ \E k \in (Len(prev) + 2)..Len(llm_input) : llm_input[k] = HumanMessage(runs)

\* The running call has invoked the LLM, and an earlier call on its thread
\* returned successfully.
SecondCallRunning ==
    /\ g_pc # "idle"
    /\ llm_input # <<>>
    /\ ok_msgs[run_thread] # <<>>

StrictlyIncreasing(lens) ==
    \A i, j \in 1..Len(lens) : i < j => lens[i] < lens[j]

\* C4: on one GraphBuilder with memory enabled, a run_with_memory call that
\* follows a successful call with the same thread id gives the LLM every
\* message of that earlier call, in order, before the new user message; and
\* the conversation_length values returned for one thread id strictly increase.
C4_SameThreadKeepsPriorTurns ==
    enable_memory =>
        /\ \A t \in AllThreadIds : StrictlyIncreasing(ok_lens[t])
        /\ SecondCallRunning => SeesPriorTurns(ok_msgs[run_thread])

\* Two successful calls with thread id "t1" have returned, the second after
\* tool calls.
C4_Witness ==
    /\ enable_memory
    /\ graph = "with_checkpointer"
    /\ g_pc = "idle"
    /\ run_thread = "t1"
    /\ Len(ok_lens["t1"]) = 2
    /\ Len(steps) = 3
    /\ run_result.kind = "ok"

\* C5: (refuted) the agent run of a POST /query request that follows a
\* successful POST /query request with the same thread_id sees the question
\* and the answer of that earlier request in its conversation state.
C5_SecondQuerySeesFirst ==
    (api_pc = "query" /\ api_req.thread_id # "" /\ enable_memory
        /\ SecondCallRunning)
        => SeesPriorTurns(ok_msgs[run_thread])

\* A step handles a POST /transcribe request whose path names no file.
TranscribeMissing ==
    /\ api_req'.id # api_req.id
    /\ api_req'.endpoint = "/transcribe"
    /\ api_req'.audio = "missing"

\* C6: POST /transcribe with a path that names no file answers 404 with an
\* error field, whatever the language, and calls neither the transcription
\* tool nor a recognizer.
C6_TranscribeMissingIs404 ==
    [][TranscribeMissing =>
          /\ api_resp'.status = 404
          /\ api_resp'.error # "none"
          /\ UNCHANGED speechVars]_vars

\* POST /transcribe with a missing path and an unsupported language was
\* answered, after an earlier request had called the tool.
C6_Witness ==
    /\ api_req.endpoint = "/transcribe"
    /\ api_req.audio = "missing"
    /\ api_req.language = "xx-XX"
    /\ api_req.id = 2
    /\ sp_call.tool = "transcribe_audio_file"
    /\ api_resp.status = 404

\* C7: (refuted) POST /query with an audio_file_path that names no file is
\* answered with a 404 response.
C7_QueryMissingAudioIs404 ==
    (api_pc = "idle" /\ api_req.endpoint = "/query" /\ api_req.audio = "missing")
        => api_resp.status = 404

LastStep == steps[Len(steps)]

\* C10: a run starts with the agent step; an agent step is followed by the
\* tools step exactly when its response requests tool calls; a tools step is
\* followed by an agent step; the run ends at the first agent step whose
\* response requests no tool call, and that response is the message returned.
C10_AgentToolsLoop ==
    /\ steps # <<>> => steps[1].node = "agent"
    /\ \A i \in 1..(Len(steps) - 1) :
          /\ steps[i].node = "agent" =>
                steps[i].tool_calls > 0 /\ steps[i + 1].node = "tools"
          /\ steps[i].node = "tools" => steps[i + 1].node = "agent"
    /\ g_pc = "agent" => steps = <<>> \/ LastStep.node = "tools"
    /\ g_pc = "tools" <=>
          steps # <<>> /\ LastStep.node = "agent" /\ LastStep.tool_calls > 0
    /\ g_pc = "end" => LastStep.node = "agent" /\ LastStep.tool_calls = 0
    /\ (g_pc = "idle" /\ steps # <<>> /\ ~LastStep.raised) =>
          /\ LastStep.node = "agent"
          /\ LastStep.tool_calls = 0
          /\ run_result.kind = "ok"
          /\ run_result.response = format_response(AIMessage(runs, Len(steps), 0))

\* A run of agent, tools, agent has returned its final answer.
C10_Witness ==
    /\ g_pc = "idle"
    /\ Len(steps) = 3
    /\ steps[1].tool_calls = MaxToolCalls
    /\ run_result.kind = "ok"
    /\ run_result.response = format_response(AIMessage(runs, 3, 0))

\* C11: when the LLM stops requesting tools and every tool call returns,
\* every run_with_memory call that has started its graph eventually returns a
\* result dictionary.
C11_RunEventuallyReturns ==
    \A n \in 1..MaxRuns :
        (runs = n /\ g_pc # "idle")
            ~> (runs = n /\ g_pc = "idle" /\ run_result.kind \in {"ok", "error"})

\* The second call has returned after a round through the tools.
C11_Witness ==
    /\ runs = 2
    /\ g_pc = "idle"
    /\ Len(steps) = 3
    /\ steps[1].tool_calls = 1
    /\ run_result.kind = "ok"

\* The latest run_with_memory call failed: its graph run was ended by an
\* exception, or there was no graph to run.
RunFailed ==
    \/ g_pc = "idle" /\ steps # <<>> /\ LastStep.raised
    \/ run_result.error = "Graph not initialized"

\* C12: a failed run_with_memory call returns a dictionary with the key
\* 'error' and without the key 'response'; POST /query answers such a
\* dictionary with a 500 that carries the error, and process_query of the
\* command line turns it into a string that starts with the error marker.
C12_FailuresBecomeErrorResults ==
    /\ RunFailed => run_result.kind = "error"
    /\ run_result.kind = "error" =>
          /\ "error" \in run_result.keys
          /\ "response" \notin run_result.keys
          /\ \A thread \in AllThreadIds :
                /\ query_response(run_result, thread).status = 500
                /\ query_response(run_result, thread).error = run_result.error
          /\ process_query("ready", run_result).marker
          /\ process_query("ready", run_result).error = run_result.error

\* The LLM raised in the agent step that followed the tools step.
C12_Witness ==
    /\ g_pc = "idle"
    /\ Len(steps) = 3
    /\ LastStep.raised
    /\ run_result.kind = "error"
    /\ run_result.error = "Error running agent"

InSeq(x, seq) == \E i \in 1..Len(seq) : seq[i] = x

\* The key the method of a source needs: TAVILY_API_KEY for the three
\* Tavily searches, NEWS_API_KEY for the three NewsAPI searches.
KeyPresent(src) ==
    IF src \in {"tavily", "linkedin", "medium"} THEN tavily_api_key ELSE newsapi_key

\* C13: a backend search method called without the key it needs returns []
\* and does not invoke its client; a method whose client raises (or answers
\* with the wrong shape) returns [] too.
C13_NoKeyOrRaiseGivesEmpty ==
    \A i \in 1..Len(calls) :
        LET src == calls[i]
        IN  /\ ~KeyPresent(src) => results[src] = <<>> /\ ~InSeq(src, invoked)
            /\ (i = Len(calls) /\ last_resp \in {"raise", "not_dict"}) =>
                  results[src] = <<>>

\* NewsAPI was searched without its key, then the Tavily client raised.
C13_Witness ==
    /\ ~newsapi_key
    /\ tavily_api_key
    /\ calls = <<"newsapi", "tavily">>
    /\ invoked = <<"tavily">>
    /\ last_resp = "raise"
    /\ results["tavily"] = <<>>

\* The thread id the user has chosen: the id of the latest 'thread <id>'
\* command, 'cli_default' before any.
ChosenThread == IF cli_thread_cmd = "" THEN "cli_default" ELSE cli_thread_cmd

\* C14: in the interactive loop every query, typed or spoken, runs the agent
\* with the id of the latest 'thread <id>' command, with 'cli_default' before
\* any such command, and never with the empty string.
C14_QueriesUseChosenThread ==
    /\ cli_thread_id = ChosenThread
    /\ cli_thread_id # ""
    /\ cli_pc = "query" => run_thread = ChosenThread /\ run_thread # ""

\* A spoken query runs on the thread set by an earlier 'thread t2'.
C14_Witness ==
    /\ cli_pc = "query"
    /\ g_pc = "agent"
    /\ First(cli_input) = "listen"
    /\ cli_thread_cmd = "t2"
    /\ run_thread = "t2"

\* The session has ended: the loop was left.
SessionEnded == cli_pc = "ended"

\* C15: the interactive session ends only on a 'quit', 'exit' or 'q' input
\* or on a keyboard interrupt; after an exception in the handling of an input
\* the error is printed and the loop is back at its prompt; once the session
\* has ended no input is read and no query reaches the agent.
C15_SessionEndsOnlyOnQuitOrInterrupt ==
    /\ [](SessionEnded =>
            /\ ~session_active
            /\ cli_interrupted \/ Command(cli_input) = "quit")
    /\ [][(cli_reads' # cli_reads /\ cli_printed'.kind = "exception") =>
            cli_pc' = "prompt" /\ session_active']_vars
    /\ [][SessionEnded =>
            UNCHANGED <<cli_pc, cli_reads, cli_input, runs, g_pc, steps, state_msgs,
                        llm_input, memory>>]_vars

\* The session ended on QUIT after an answered query.
C15_Witness ==
    /\ SessionEnded
    /\ cli_input = <<"QUIT">>
    /\ ~cli_interrupted
    /\ last_agent_response # NoAgentResponse
    /\ cli_reads = 2

\* POST /query has been answered with success.
QuerySucceeded ==
    /\ api_pc = "idle"
    /\ api_req.endpoint = "/query"
    /\ api_resp.status = 200

\* C16: a successful POST /query response carries answer, timestamp,
\* model_provider, thread_id and memory_enabled; its thread_id is the
\* request's thread_id when one is given and 'api_default' otherwise, and the
\* agent run used that same thread id.
C16_QueryResponseShape ==
    QuerySucceeded =>
        /\ {"answer", "timestamp", "model_provider", "thread_id", "memory_enabled"}
              \subseteq api_resp.keys
        /\ api_resp.thread_id =
              IF api_req.thread_id # "" THEN api_req.thread_id ELSE "api_default"
        /\ api_resp.thread_id = run_thread
        /\ api_resp.answer = run_result.response
        /\ api_resp.memory_enabled = enable_memory

\* A request with thread_id "t1" and a transcribed audio file was answered.
C16_Witness ==
    /\ QuerySucceeded
    /\ api_req.thread_id = "t1"
    /\ api_req.audio = "present"
    /\ Len(steps) = 3

\* aggregate_news has stored the sources of a category.
Stored(cat) == cat \in DOMAIN agg_sources

\* C17: with the 'general' category, search_news_tavily is called exactly
\* when search_news_api returned an empty list, so the general 'newsapi' and
\* 'tavily' lists are never both non-empty.
C17_TavilyOnlyAsFallback ==
    Stored("general") =>
        /\ InSeq("tavily", calls) <=> agg_sources["general"].newsapi = <<>>
        /\ ~(agg_sources["general"].newsapi # <<>>
             /\ agg_sources["general"].tavily # <<>>)
        /\ InSeq("tavily", invoked) =>
              agg_sources["general"].newsapi = <<>> /\ tavily_api_key

\* NewsAPI had its key and returned nothing; Tavily was searched and found
\* articles.
C17_Witness ==
    /\ Stored("general")
    /\ newsapi_key
    /\ calls = <<"newsapi", "tavily">>
    /\ invoked = <<"newsapi", "tavily">>
    /\ agg_sources["general"].newsapi = <<>>
    /\ Len(agg_sources["general"].tavily) = MaxLen

\* C18: with the 'tech' category, search_linkedin_news and
\* search_medium_articles are each called exactly when search_tech_news
\* returned fewer than 5 articles; with 5 or more, both lists are empty and
\* neither client is invoked.
C18_LinkedinMediumBelowThreshold ==
    Stored("technology") =>
        LET tech == agg_sources["technology"]
        IN  /\ InSeq("linkedin", calls) <=> Len(tech.tech_sources) < 5
            /\ InSeq("medium", calls) <=> Len(tech.tech_sources) < 5
            /\ Len(tech.tech_sources) >= 5 =>
                  /\ tech.linkedin = <<>>
                  /\ tech.medium = <<>>
                  /\ ~InSeq("linkedin", invoked)
                  /\ ~InSeq("medium", invoked)

\* The tech search returned exactly 5 articles and nothing else was searched.
C18_Witness ==
    /\ Stored("technology")
    /\ tavily_api_key
    /\ news_tool = "search_technology_news"
    /\ Len(agg_sources["technology"].tech_sources) = 5
    /\ calls = <<"tech_sources">>

\* The place of a backend in the order of aggregate_news, and its category.
Rank(src) ==
    CASE src = "newsapi" -> 1
      [] src = "tavily" -> 2
      [] src = "tech_sources" -> 3
      [] src = "linkedin" -> 4
      [] src = "medium" -> 5
      [] src = "financial_sources" -> 6

CategoryOfSource(src) ==
    IF src \in {"newsapi", "tavily"} THEN "general"
    ELSE IF src \in {"tech_sources", "linkedin", "medium"} THEN "tech"
    ELSE "business"

\* aggregate_news has returned.
Aggregated == news_pc \in {"render", "done"}

\* C19: aggregate_news calls its backends one after another in the order
\* NewsAPI general, Tavily general, tech sources, LinkedIn, Medium, business
\* sources, only for the requested categories; whatever a backend does (an
\* error included) the first backend of every requested category is called,
\* and what has been collected is never removed.
C19_FixedOrderNoLoss ==
    /\ [](/\ \A i, j \in 1..Len(calls) : i < j => Rank(calls[i]) < Rank(calls[j])
          /\ \A i \in 1..Len(calls) : CategoryOfSource(calls[i]) \in categories
          /\ Aggregated =>
                /\ InSeq("newsapi", calls) <=> "general" \in categories
                /\ InSeq("tech_sources", calls) <=> "tech" \in categories
                /\ InSeq("financial_sources", calls) <=> "business" \in categories)
    /\ [][news_pc # "idle" =>
            /\ Len(calls') <= Len(calls) + 1
            /\ SubSeq(calls', 1, Len(calls)) = calls
            /\ \A src \in SourceNames : results[src] # <<>> => results'[src] = results[src]
            /\ \A cat \in DOMAIN agg_sources :
                  cat \in DOMAIN agg_sources' /\ agg_sources'[cat] = agg_sources[cat]
            /\ total_articles' >= total_articles]_vars

\* The comprehensive tool: the tech search raised after the general search
\* had found articles, and the business search was still made and found
\* articles.
C19_Witness ==
    /\ Aggregated
    /\ news_tool = "search_comprehensive_news"
    /\ calls = <<"newsapi", "tech_sources", "linkedin", "medium", "financial_sources">>
    /\ Len(results["newsapi"]) = 2
    /\ results["tech_sources"] = <<>>
    /\ Len(results["financial_sources"]) = 1
    /\ total_articles = 3

\* The three single-category tools.
CategoryTools == {"search_general_news", "search_technology_news",
                  "search_business_news"}

\* C20: (refuted) when aggregation yields no article, each single-category
\* tool returns its "No ... news found for '<query>'" message, and the
\* category header is returned only when at least one article was found.
C20_NoneFoundWhenNoArticles ==
    (news_pc = "done" /\ news_tool \in CategoryTools) =>
        /\ total_articles = 0 => news_output.kind = "none_found"
        /\ news_output.kind = "report" => total_articles > 0

\* The backend whose list a rendered section shows.  The comprehensive tool
\* prints the tech and the business articles directly under the category
\* heading; its "General News" heading has no articles of its own.
SourceHeadings == {"Web Search Results", "News API Results", "Tech Sources",
                   "LinkedIn Insights", "Medium Articles", "Financial Sources"}
SectionSource(heading) ==
    CASE heading = "Web Search Results" -> "tavily"
      [] heading = "News API Results" -> "newsapi"
      [] heading \in {"Tech Sources", "Technology News"} -> "tech_sources"
      [] heading = "LinkedIn Insights" -> "linkedin"
      [] heading = "Medium Articles" -> "medium"
      [] heading \in {"Financial Sources", "Business News"} -> "financial_sources"

\* The list aggregate_news stored for a backend.
CategoryKey(src) ==
    IF src \in {"newsapi", "tavily"} THEN "general"
    ELSE IF src \in {"tech_sources", "linkedin", "medium"} THEN "technology"
    ELSE "business"
AggList(src) == agg_sources[CategoryKey(src)][src]

\* The number of articles a section may show.
Cut(tool, src) ==
    IF tool = "search_comprehensive_news" \/ src \in {"linkedin", "medium"}
    THEN 3 ELSE 5

\* C21: every rendered section shows the first k articles of its backend's
\* list, in the backend's order and numbered 1..k, with k = min(length, 5) in
\* the general, tech-sources and financial sections of the single-category
\* tools and k = min(length, 3) in the LinkedIn and Medium sections and in
\* every section of the comprehensive tool; the heading of a source is
\* emitted only for a non-empty list.
C21_SectionsShowNumberedPrefix ==
    news_output.kind = "report" =>
        \A n \in 1..Len(news_output.sections) :
            LET section == news_output.sections[n]
            IN  IF section.heading = "General News" THEN section.items = <<>>
                ELSE LET src == SectionSource(section.heading)
                         list == AggList(src)
                         k == Min(Len(list), Cut(news_tool, src))
                     IN  /\ DOMAIN section.items = 1..k
                         /\ \A i \in 1..k : section.items[i] = <<i, list[i]>>
                         /\ section.heading \in SourceHeadings => list # <<>>

\* The technology tool with 4 tech articles and more LinkedIn articles than
\* the short cut: the sections show 4 and 3.
C21_Witness ==
    /\ news_pc = "done"
    /\ news_output.kind = "report"
    /\ news_tool = "search_technology_news"
    /\ Len(agg_sources["technology"].tech_sources) = 4
    /\ Len(agg_sources["technology"].linkedin) = MaxLen
    /\ agg_sources["technology"].medium = <<>>
    /\ Len(news_output.sections) = 2
    /\ Len(news_output.sections[1].items) = 4
    /\ Len(news_output.sections[2].items) = TopShort

\* POST /query takes a request with an audio_file_path.
AudioQueryTaken ==
    /\ api_req'.id # api_req.id
    /\ api_req'.endpoint = "/query"
    /\ api_req'.audio # "none"

\* The direct call of the tool object raised: the handler's except answers.
DirectCallRaised ==
    /\ api_resp'.status = 500
    /\ api_pc' = "idle"
    /\ UNCHANGED <<sp_pc, sp_call, sp_log, sp_result, sp_return, runs>>

\* C22: (refuted) POST /query with an audio_file_path transcribes first and
\* invokes the agent only if the recognizer succeeded on an existing file
\* with a supported language, and then the question sent is the template
\* text holding the transcribed text; for a missing file, an unsupported
\* language or a failed recognition the response is a 400 with an error
\* field and the agent is not invoked.
C22_AgentOnlyAfterSuccessfulTranscription ==
    [][AudioQueryTaken =>
          \/ DirectCallRaised
          \/ /\ sp_pc' = "done"
             /\ sp_call'.tool = "transcribe_audio_file"
             /\ IF /\ sp_call'.exists
                   /\ LanguageOrDefault(sp_call'.language) \in supported_languages
                   /\ sp_result'.success
                THEN /\ api_pc' = "query"
                     /\ runs' = runs + 1
                     /\ api_req'.question = TemplateQuestion(sp_result'.text)
                ELSE /\ api_pc' = "idle"
                     /\ runs' = runs
                     /\ api_resp'.status = 400
                     /\ "error" \in api_resp'.keys]_vars

\* A clear_conversation_history call returns True.
ClearReturnsTrue == clear_ret' # clear_ret /\ clear_ret'.ok

\* C23: (refuted) after clear_conversation_history(thread_id) has returned
\* True the thread's history is empty: get_conversation_history(thread_id)
\* returns [] and the next run_with_memory on it starts with no prior turn.
C23_ClearEmptiesHistory ==
    [][ClearReturnsTrue =>
          /\ History(memory'[clear_ret'.thread]) = <<>>
          /\ InitialMessages(graph', memory', clear_ret'.thread, <<>>) = <<>>]_vars

\* The messages of the running or latest call that this call produced.
OwnMessages == {i \in 1..Len(state_msgs) : state_msgs[i].run = runs}

\* C24: when memory is disabled or the graph has not been built,
\* get_conversation_history returns [] and clear_conversation_history
\* returns False and nothing is stored; with memory disabled a
\* run_with_memory call sees no message of an earlier call and its
\* conversation_length counts its own messages only.
C24_NoMemoryNoHistory ==
    /\ (~enable_memory \/ graph = "none") =>
          /\ history_ret = <<>>
          /\ ~clear_ret.ok
          /\ memory = EmptyMemory
    /\ ~enable_memory =>
          /\ OwnMessages = 1..Len(state_msgs)
          /\ \A i \in 2..Len(llm_input) : llm_input[i].run = runs
          /\ (g_pc = "idle" /\ run_result.kind = "ok") =>
                run_result.conversation_length = Cardinality(OwnMessages)

\* Memory is disabled: two calls on thread id "t1" have returned normally,
\* the second no longer than the first, and a clear on "t1" returned False.
C24_Witness ==
    /\ ~enable_memory
    /\ graph = "no_checkpointer"
    /\ g_pc = "idle"
    /\ runs = 2
    /\ run_result.kind = "ok"
    /\ run_thread = "t1"
    /\ Len(ok_lens["t1"]) = 2
    /\ ok_lens["t1"][2] <= ok_lens["t1"][1]
    /\ clear_ret = Cleared("t1", FALSE)

\* The places of the system prompt in a list of messages.
SystemPlaces(messages) == {i \in 1..Len(messages) : messages[i].type = "system"}

\* The agent node runs, and runs to its end.
AgentStepTaken == g_pc = "agent" /\ steps' # steps
AgentStepDone == AgentStepTaken /\ ~steps'[Len(steps')].raised

\* C25: at every agent step the LLM's input is the system prompt followed by
\* the thread's stored messages, the system prompt occurring exactly once;
\* the system prompt is never among the stored messages, and an agent step
\* appends exactly one message, the LLM's response, to them.
C25_SystemPromptOnceNeverStored ==
    /\ [](/\ SystemPlaces(state_msgs) = {}
          /\ \A t \in AllThreadIds : SystemPlaces(memory[t]) = {}
          /\ llm_input # <<>> => SystemPlaces(llm_input) = {1})
    /\ [][AgentStepTaken =>
             /\ llm_input' = <<SYSTEM_PROMPT>> \o state_msgs
             /\ graph = "with_checkpointer" =>
                   llm_input' = <<SYSTEM_PROMPT>> \o memory[run_thread]
             /\ AgentStepDone =>
                   /\ Len(state_msgs') = Len(state_msgs) + 1
                   /\ SubSeq(state_msgs', 1, Len(state_msgs)) = state_msgs
                   /\ state_msgs'[Len(state_msgs')].type = "ai"
                   /\ graph = "with_checkpointer" =>
                         memory'[run_thread] = state_msgs']_vars

\* The second turn on a thread, after a tool loop: the LLM's input holds the
\* first turn, the new question, the tool request and the tool's answer
\* behind the one system prompt.
C25_Witness ==
    /\ enable_memory
    /\ runs = 2
    /\ run_thread \in AllThreadIds
    /\ ok_msgs[run_thread] # <<>>
    /\ Len(steps) = 3
    /\ steps[2].node = "tools"
    /\ Len(llm_input) >= 6
    /\ llm_input[1] = SYSTEM_PROMPT
    /\ llm_input[2] = HumanMessage(1)

\* The thread ids whose stored conversation a step changes.
ChangedThreads == {b \in AllThreadIds : memory'[b] # memory[b]}

Takes(command) == cli_reads' # cli_reads /\ Command(cli_input') = command

\* C27: (refuted) a 'debug on|off' command changes the debug flag only: the
\* tracing flag and the tracing project keep the values the latest 'trace'
\* command gave them.
C27_DebugKeepsTracing ==
    [][(Takes("debug") /\ os_environ.LANGCHAIN_TRACING_V2 # Unset) =>
          /\ os_environ'.LANGCHAIN_TRACING_V2 = os_environ.LANGCHAIN_TRACING_V2
          /\ os_environ'.LANGCHAIN_PROJECT = os_environ.LANGCHAIN_PROJECT]_vars

\* The status a 'trace' command printed.
PrintedTracing == cli_printed'.kind \in {"tracing ON", "tracing OFF"}

\* C28: (refuted) after 'trace on' the tracing flag is 'true' and the status
\* printed is ON; after 'trace off' the flag is 'false' and
\* LANGCHAIN_PROJECT is unset; the status printed is ON exactly when the
\* flag is 'true', with or without an API key in the environment.
C28_TraceStatusIsTheFlag ==
    [][Takes("trace") =>
          /\ TraceOn(cli_input') =>
                /\ os_environ'.LANGCHAIN_TRACING_V2 = "true"
                /\ PrintedTracing => cli_printed'.kind = "tracing ON"
          /\ ~TraceOn(cli_input') =>
                /\ os_environ'.LANGCHAIN_TRACING_V2 = "false"
                /\ os_environ'.LANGCHAIN_PROJECT = Unset
                /\ cli_printed'.kind = "tracing OFF"
          /\ PrintedTracing =>
                (cli_printed'.kind = "tracing ON"
                    <=> os_environ'.LANGCHAIN_TRACING_V2 = "true")]_vars

\* C29: the 'speak' command passes to text-to-speech the response of the
\* most recent query processed, typed or spoken; when no query has been
\* processed it prints a notice and invokes nothing; only a query changes
\* the response that is spoken.
C29_SpeakSaysLatestResponse ==
    /\ [](cli_pc = "prompt" =>
             last_agent_response =
                 IF runs = 0 THEN NoAgentResponse
                 ELSE process_query(cli_agent, run_result))
    /\ [][/\ Takes("speak") =>
                /\ tts_text' = last_agent_response
                /\ last_agent_response = NoAgentResponse <=>
                      cli_printed'.kind = "nothing_to_speak"
          /\ tts_text' # tts_text => Takes("speak")
          /\ last_agent_response' # last_agent_response => cli_pc = "query"]_vars

\* Two queries were answered, one of them spoken, and 'speak' passed the
\* answer to the second.
C29_Witness ==
    /\ cli_pc = "prompt"
    /\ runs = 2
    /\ run_result.kind = "ok"
    /\ sp_pc = "done"
    /\ Command(cli_input) = "speak"
    /\ cli_printed.kind = "spoken"
    /\ tts_text = process_query(cli_agent, run_result)
    /\ tts_text.answer.content.run = 2

\* The words that name a command.
CommandWords == {"quit", "exit", "q", "help", "clear", "mics", "voices",
                 "dashboard", "listen", "speak", "debug", "trace", "thread"}
IsCommandLine(input) == input # <<>> /\ First(input) \in CommandWords

\* The line read is passed to the agent as a query.
Forwarded ==
    /\ cli_pc' = "query"
    /\ runs' = runs + 1
    /\ cli_query' = TypedQuery(cli_input')

\* C30: (refuted) an input line is a command exactly when its first word,
\* in any case, is one of the thirteen command words; a non-empty line that
\* is not a command is forwarded to the agent as a query, a command line
\* never is, and an empty line invokes nothing.
C30_DispatchByFirstWord ==
    [][cli_reads' # cli_reads =>
          /\ (cli_input' # <<>> /\ ~IsCommandLine(cli_input')) => Forwarded
          /\ IsCommandLine(cli_input') => ~Forwarded
          /\ IsCommandLine(cli_input') <=>
                Command(cli_input') \notin {"query", "empty"}
          /\ cli_input' = <<>> =>
                /\ runs' = runs
                /\ UNCHANGED <<sp_pc, sp_call, tts_text, os_environ>>]_vars

=============================================================================
